---------------------------- MODULE Spec2Model ----------------------------
(***************************************************************************)
(* A model of the dual-spacetime-simulator physics engine                  *)
(* (src/src/simulation.rs, src/src/math/spacetime.rs) and of the driver    *)
(* that ticks it (src/src/main.rs).                                        *)
(*                                                                         *)
(* Numbers.  The program computes in f64.  The model computes in exact     *)
(* rational arithmetic: a number is a record [n |-> numerator,             *)
(* d |-> denominator] in lowest terms with d > 0, and the record with      *)
(* d = 0 stands for the non-finite results of f64 (NaN, and the            *)
(* infinities, which in every computation of the engine end as NaN).  Like *)
(* f64's NaN the value absorbs every operation and makes every comparison  *)
(* false.  Square roots are taken only of perfect squares, where f64's     *)
(* correctly rounded sqrt is exact as well.  A finite value the model       *)
(* cannot hold (a fraction too long for TLC's integers, an irrational      *)
(* root) is the value Unrep; a call whose result would hold it is outside  *)
(* the model's bounds and is not taken.                                    *)
(*                                                                         *)
(* Units.  The engine's formulas are homogeneous in the units of length,   *)
(* time and mass, and the program's three dimensional constants G,         *)
(* LIGHT_SPEED, EPSILON fix one unit each.  The model measures length,     *)
(* time and mass in the units in which the three constants are the small   *)
(* integers below, so that every intermediate value fits TLC's integers.   *)
(***************************************************************************)
EXTENDS Integers, Sequences, FiniteSets, TLC

-----------------------------------------------------------------------------
(* Exact rational arithmetic with a non-finite value.                      *)

RECURSIVE Gcd(_, _)
Gcd(a, b) == IF b = 0 THEN a ELSE Gcd(b, a % b)

Abs(a) == IF a < 0 THEN -a ELSE a

\* largest numerator or denominator the model computes with: the products of
\* two such numbers, and the sum of two such products, stay inside TLC's integers
MaxMagnitude == 30000

NaN == [n |-> 0, d |-> 0]

Unrep == [n |-> 0, d |-> -1]

IsNaN(a) == a.d = 0

IsUnrep(a) == a.d < 0

IsFinite(a) == a.d > 0

\* the rational n/d in lowest terms; non-finite when d = 0
Rat(n, d) ==
    IF d = 0 THEN NaN
    ELSE LET g == Gcd(Abs(n), Abs(d))
             s == IF d < 0 THEN -1 ELSE 1
             r == [n |-> s * (n \div g), d |-> s * (d \div g)]
         IN  IF Abs(r.n) <= MaxMagnitude /\ r.d <= MaxMagnitude THEN r ELSE Unrep

Zero == Rat(0, 1)

One == Rat(1, 1)

Add(a, b) ==
    IF IsUnrep(a) \/ IsUnrep(b) THEN Unrep
    ELSE IF IsNaN(a) \/ IsNaN(b) THEN NaN
    ELSE Rat(a.n * b.d + b.n * a.d, a.d * b.d)

Neg(a) == IF IsFinite(a) THEN [n |-> -a.n, d |-> a.d] ELSE a

Sub(a, b) == Add(a, Neg(b))

Mul(a, b) ==
    IF IsUnrep(a) \/ IsUnrep(b) THEN Unrep
    ELSE IF IsNaN(a) \/ IsNaN(b) THEN NaN
    ELSE Rat(a.n * b.n, a.d * b.d)

\* f64 division; x / 0 is an infinity or NaN, both non-finite
Div(a, b) ==
    IF IsUnrep(a) \/ IsUnrep(b) THEN Unrep
    ELSE IF IsNaN(a) \/ IsNaN(b) THEN NaN
    ELSE Rat(a.n * b.d, a.d * b.n)

\* f64 comparison: false when an operand is NaN
Lt(a, b) == IsFinite(a) /\ IsFinite(b) /\ a.n * b.d < b.n * a.d

Le(a, b) == IsFinite(a) /\ IsFinite(b) /\ a.n * b.d <= b.n * a.d

\* integer square root by bisection: the largest r in lo..hi with r * r <= k
RECURSIVE ISqrtB(_, _, _)
ISqrtB(k, lo, hi) ==
    IF lo >= hi THEN lo
    ELSE LET mid == (lo + hi + 1) \div 2
         IN  IF mid * mid <= k THEN ISqrtB(k, mid, hi) ELSE ISqrtB(k, lo, mid - 1)

ISqrt(k) == ISqrtB(k, 0, IF k < 200 THEN k ELSE 200)

IsSquare(k) == k >= 0 /\ ISqrt(k) * ISqrt(k) = k

\* f64::sqrt: NaN for a negative number or NaN, exact on a perfect square
Sqrt(a) ==
    IF IsUnrep(a) THEN Unrep
    ELSE IF IsNaN(a) \/ a.n < 0 THEN NaN
    ELSE IF IsSquare(a.n) /\ IsSquare(a.d) THEN Rat(ISqrt(a.n), ISqrt(a.d))
    ELSE Unrep

-----------------------------------------------------------------------------
(* glam::DVec3 as a triple of numbers.                                     *)

Vec(x, y, z) == <<x, y, z>>

VZero == Vec(Zero, Zero, Zero)

VAdd(u, v) == Vec(Add(u[1], v[1]), Add(u[2], v[2]), Add(u[3], v[3]))

VSub(u, v) == Vec(Sub(u[1], v[1]), Sub(u[2], v[2]), Sub(u[3], v[3]))

VScale(v, k) == Vec(Mul(v[1], k), Mul(v[2], k), Mul(v[3], k))

VDivide(v, k) == Vec(Div(v[1], k), Div(v[2], k), Div(v[3], k))

LengthSquared(v) == Add(Add(Mul(v[1], v[1]), Mul(v[2], v[2])), Mul(v[3], v[3]))

Length(v) == Sqrt(LengthSquared(v))

\* DVec3::normalize: the vector times the reciprocal of its length
Normalize(v) == VScale(v, Div(One, Length(v)))

VFinite(v) == IsFinite(v[1]) /\ IsFinite(v[2]) /\ IsFinite(v[3])

VUnrep(v) == IsUnrep(v[1]) \/ IsUnrep(v[2]) \/ IsUnrep(v[3])

-----------------------------------------------------------------------------
(* src/src/simulation.rs: constants, in the model's units.                 *)

G == 2

LIGHT_SPEED == 2

LIGHT_SPEED_SQUARED == LIGHT_SPEED * LIGHT_SPEED

EPSILON == 1

Variants == {"Normal", "SpeedOfLightLimit", "LorentzTransformation"}

Particle(position, velocity, mass, color) ==
    [position |-> position, velocity |-> velocity, mass |-> mass, color |-> color]

-----------------------------------------------------------------------------
(* The force accumulator: update_velocities, the same in the three         *)
(* variants.                                                               *)

\* let positions / let masses: the snapshot taken before the parallel loop
SnapshotPositions(ps) == [k \in 1..Len(ps) |-> ps[k].position]

SnapshotMasses(ps) == [k \in 1..Len(ps) |-> ps[k].mass]

\* if r_squared < EPSILON { continue; }
NearZeroLe(r_squared) == Le(r_squared, Rat(EPSILON, 1))

NearZero(r_squared) == Lt(r_squared, Rat(EPSILON, 1))

\* accel_magnitude * diff.normalize(), accel_magnitude = G * mass_j / r_squared
PairAccelNoNormalize(diff, r_squared, mass_j) ==
    VScale(diff, Div(Mul(Rat(G, 1), mass_j), r_squared))

PairAccelNoMass(diff, r_squared, mass_j) ==
    VScale(Normalize(diff), Div(Rat(G, 1), r_squared))

PairAccel(diff, r_squared, mass_j) ==
    VScale(Normalize(diff), Div(Mul(Rat(G, 1), mass_j), r_squared))

\* the pairs (i, j) the inner loop leaves with continue
PairSkipped(i, j, position_i, pos_j) ==
    i = j \/ NearZero(LengthSquared(VSub(pos_j, position_i)))

\* the inner loop over j = 1..upto, for particle i at position_i
RECURSIVE AccelerationLoop(_, _, _, _, _)
AccelerationLoop(upto, i, position_i, positions, masses) ==
    IF upto = 0 THEN VZero
    ELSE LET acceleration == AccelerationLoop(upto - 1, i, position_i, positions, masses)
             diff == VSub(positions[upto], position_i)
             r_squared == LengthSquared(diff)
         IN  IF i = upto THEN acceleration
             ELSE IF IsUnrep(r_squared) THEN Vec(Unrep, Unrep, Unrep)
             ELSE IF NearZero(r_squared) THEN acceleration
             ELSE VAdd(acceleration, PairAccel(diff, r_squared, masses[upto]))

\* the body of the parallel loop for particle i, applied to the live store ps:
\* particle.velocity += acceleration * delta_seconds
UpdateVelocitiesStepLive(ps, i, positions, masses, delta_seconds) ==
    LET acceleration ==
            AccelerationLoop(Len(ps), i, ps[i].position, SnapshotPositions(ps), masses)
        velocity == VAdd(ps[i].velocity, VScale(acceleration, delta_seconds))
    IN  [ps EXCEPT ![i].velocity = velocity,
                   ![i].position = VAdd(@, VScale(velocity, delta_seconds))]

UpdateVelocitiesStepMass(ps, i, positions, masses, delta_seconds) ==
    LET acceleration ==
            AccelerationLoop(Len(positions), i, ps[i].position, positions, masses)
    IN  [ps EXCEPT ![i].velocity = VAdd(@, VScale(acceleration, delta_seconds)),
                   ![i].mass = Add(@, Mul(Rat(G, 1), delta_seconds))]

UpdateVelocitiesStep(ps, i, positions, masses, delta_seconds) ==
    LET acceleration ==
            AccelerationLoop(Len(positions), i, ps[i].position, positions, masses)
    IN  [ps EXCEPT ![i].velocity = VAdd(@, VScale(acceleration, delta_seconds))]

\* the same closure in SimulationSpeedOfLightLimit::update_velocities
UpdateVelocitiesStepSpeedOfLightLimit(ps, i, positions, masses, delta_seconds) ==
    LET acceleration ==
            AccelerationLoop(Len(positions), i, ps[i].position, positions, masses)
    IN  [ps EXCEPT ![i].velocity = VAdd(@, VScale(acceleration, delta_seconds))]

\* a closure that adds the acceleration without the factor delta_seconds
UpdateVelocitiesStepNoDelta(ps, i, positions, masses, delta_seconds) ==
    LET acceleration ==
            AccelerationLoop(Len(positions), i, ps[i].position, positions, masses)
    IN  [ps EXCEPT ![i].velocity = VAdd(@, acceleration)]

\* the same closure in SimulationLorentzTransformation::update_velocities
UpdateVelocitiesStepLorentzTransformation(ps, i, positions, masses, delta_seconds) ==
    LET acceleration ==
            AccelerationLoop(Len(positions), i, ps[i].position, positions, masses)
    IN  [ps EXCEPT ![i].velocity = VAdd(@, VScale(acceleration, delta_seconds))]

\* SimulationState::update_velocities: the match on the variant
UpdateVelocitiesMatch(ps, i, positions, masses, delta_seconds, var) ==
    CASE var = "Normal" ->
            UpdateVelocitiesStep(ps, i, positions, masses, delta_seconds)
      [] var = "SpeedOfLightLimit" ->
            UpdateVelocitiesStepSpeedOfLightLimit(ps, i, positions, masses,
                                                  delta_seconds)
      [] var = "LorentzTransformation" ->
            UpdateVelocitiesStepLorentzTransformation(ps, i, positions, masses,
                                                      delta_seconds)

-----------------------------------------------------------------------------
(* src/src/math/spacetime.rs: the four-vector algebra.  A hyperbolic angle *)
(* a is held as the number e^a, so that cosh, sinh, atanh and halving are  *)
(* exact: cosh a = (e^a + e^-a) / 2, atanh x = ln sqrt((1 + x) / (1 - x)). *)

Spacetime(t, x, y, z) == [t |-> t, x |-> x, y |-> y, z |-> z]

FromT(t) == Spacetime(t, Zero, Zero, Zero)

Two == Rat(2, 1)

\* f64::atanh: NaN outside [-1, 1], an infinity at -1 and 1
Atanh(x) ==
    IF IsUnrep(x) THEN Unrep
    ELSE IF IsNaN(x) \/ Le(One, x) \/ Le(x, Neg(One)) THEN NaN
    ELSE Sqrt(Div(Add(One, x), Sub(One, x)))

\* 0.5 * a
HalfAngle(a) == Sqrt(a)

Cosh(a) == Div(Add(a, Div(One, a)), Two)

Sinh(a) == Div(Sub(a, Div(One, a)), Two)

Exp(a, v) ==
    LET s == Sinh(a)
    IN  Spacetime(Cosh(a), Mul(v[1], s), Mul(v[2], s), Mul(v[3], s))

\* lorentz_transformation with the time row scaled by qq + rr + ss - pp
LorentzTransformationTimeSign(self, g) ==
    LET p == g.t
        q == g.x
        r == g.y
        s == g.z
        pp == Mul(p, p)
        qq == Mul(q, q)
        rr == Mul(r, r)
        ss == Mul(s, s)
    IN  Spacetime(
            Add(Mul(Sub(Add(Add(qq, rr), ss), pp), self.t),
                Mul(Mul(Two, p), Add(Add(Mul(q, self.x), Mul(r, self.y)),
                                     Mul(s, self.z)))),
            Add(Mul(Sub(Sub(Add(pp, qq), rr), ss), self.x),
                Mul(Mul(Two, q), Sub(Sub(Mul(p, self.t), Mul(r, self.y)),
                                     Mul(s, self.z)))),
            Add(Mul(Sub(Add(Sub(pp, qq), rr), ss), self.y),
                Mul(Mul(Two, r), Sub(Sub(Mul(p, self.t), Mul(q, self.x)),
                                     Mul(s, self.z)))),
            Add(Mul(Add(Sub(Sub(pp, qq), rr), ss), self.z),
                Mul(Mul(Two, s), Sub(Sub(Mul(p, self.t), Mul(q, self.x)),
                                     Mul(r, self.y)))))

LorentzTransformation(self, g) ==
    LET p == g.t
        q == g.x
        r == g.y
        s == g.z
        w == self.t
        x == self.x
        y == self.y
        z == self.z
        pp == Mul(p, p)
        qq == Mul(q, q)
        rr == Mul(r, r)
        ss == Mul(s, s)
        p_w == Mul(p, w)
        q_x == Mul(q, x)
        r_y == Mul(r, y)
        s_z == Mul(s, z)
    IN  Spacetime(
            Add(Mul(Add(Add(Add(pp, qq), rr), ss), w),
                Mul(Mul(Two, p), Add(Add(q_x, r_y), s_z))),
            Add(Mul(Sub(Sub(Add(pp, qq), rr), ss), x),
                Mul(Mul(Two, q), Sub(Sub(p_w, r_y), s_z))),
            Add(Mul(Sub(Add(Sub(pp, qq), rr), ss), y),
                Mul(Mul(Two, r), Sub(Sub(p_w, q_x), s_z))),
            Add(Mul(Add(Sub(Sub(pp, qq), rr), ss), z),
                Mul(Mul(Two, s), Sub(Sub(p_w, q_x), r_y))))

\* an angle given as an f64 number x, as the model holds angles: e^x, which
\* is rational for x = 0 only
AngleOf(x) ==
    IF IsUnrep(x) THEN Unrep
    ELSE IF IsNaN(x) THEN NaN
    ELSE IF x = Zero THEN One
    ELSE Unrep

\* the f64 number of an angle the model holds as e^a: ln of it
AngleValue(a) ==
    IF IsUnrep(a) THEN Unrep
    ELSE IF IsNaN(a) THEN NaN
    ELSE IF a = One THEN Zero
    ELSE Unrep

SpacetimeZero == Spacetime(Zero, Zero, Zero, Zero)

SpacetimeIdentity == Spacetime(One, Zero, Zero, Zero)

\* a norm of the other signature, t^2 - x^2 - y^2 - z^2
NormTimelike(self) ==
    Sub(Sub(Sub(Mul(self.t, self.t), Mul(self.x, self.x)), Mul(self.y, self.y)),
        Mul(self.z, self.z))

\* signature (-+++)
Norm(self) ==
    Sub(Add(Add(Mul(self.x, self.x), Mul(self.y, self.y)), Mul(self.z, self.z)),
        Mul(self.t, self.t))

\* a conjugation that negates the space part instead
ConjugatedSpace(self) == Spacetime(self.t, Neg(self.x), Neg(self.y), Neg(self.z))

Conjugated(self) == Spacetime(Neg(self.t), self.x, self.y, self.z)

\* lorentz_transformation_v past its guard: l, a, dir and the boost g
BoostV(v, speed_of_light_inv) ==
    LET l == LengthSquared(v)
        a == Atanh(Mul(l, speed_of_light_inv))
        dir == VDivide(v, l)
    IN  [a |-> a, dir |-> dir, g |-> Exp(HalfAngle(a), dir)]

\* lorentz_transformation_v without the test l == 0.0
LorentzTransformationVNoGuard(self, v, speed_of_light_inv) ==
    LET b == BoostV(v, speed_of_light_inv)
    IN  [self |-> LorentzTransformation(self, b.g), boosts |-> <<b>>]

\* lorentz_transformation_v: self afterwards, and the boosts it built and
\* passed to lorentz_transformation
LorentzTransformationV(self, v, speed_of_light_inv) ==
    LET l == LengthSquared(v)
        b == BoostV(v, speed_of_light_inv)
    IN  IF l = Zero THEN [self |-> self, boosts |-> <<>>]
        ELSE [self |-> LorentzTransformation(self, b.g), boosts |-> <<b>>]

\* lorentz_transformation_rapidity past its guard: a, dir and the boost g
BoostRapidity(rapidity) ==
    LET a == LengthSquared(rapidity)
        dir == VDivide(rapidity, a)
    IN  [a |-> AngleOf(a), dir |-> dir, g |-> Exp(HalfAngle(AngleOf(a)), dir)]

\* lorentz_transformation_rapidity without the test a == 0.0
LorentzTransformationRapidityNoGuard(self, rapidity) ==
    LET b == BoostRapidity(rapidity)
    IN  [self |-> LorentzTransformation(self, b.g), boosts |-> <<b>>]

LorentzTransformationRapidity(self, rapidity) ==
    LET a == LengthSquared(rapidity)
        b == BoostRapidity(rapidity)
    IN  IF a = Zero THEN [self |-> self, boosts |-> <<>>]
        ELSE [self |-> LorentzTransformation(self, b.g), boosts |-> <<b>>]

\* rapidity_vector without the test speed == 0.0
RapidityVectorNoGuard(v, speed_of_light_inv) ==
    LET speed == LengthSquared(v)
        a == Atanh(Mul(speed, speed_of_light_inv))
        b == Div(AngleValue(a), speed)
    IN  Vec(Mul(b, v[1]), Mul(b, v[2]), Mul(b, v[3]))

RapidityVector(v, speed_of_light_inv) ==
    LET speed == LengthSquared(v)
        a == Atanh(Mul(speed, speed_of_light_inv))
        b == Div(AngleValue(a), speed)
    IN  IF speed = Zero THEN VZero
        ELSE Vec(Mul(b, v[1]), Mul(b, v[2]), Mul(b, v[3]))

RapidityFromMomentum(p, m, speed_of_light) ==
    LET pn == LengthSquared(p)
        pr == Sqrt(pn)
        l == Div(pr, Sqrt(Add(Mul(Mul(Mul(m, m), speed_of_light), speed_of_light),
                              pn)))
        a == Atanh(l)
        b == Div(AngleValue(a), pr)
    IN  IF pn = Zero THEN VZero
        ELSE Vec(Mul(b, p[1]), Mul(b, p[2]), Mul(b, p[3]))

\* the boost from a velocity already in units of the speed of light:
\* a = atanh(|v|), the boost exp(a / 2, v / |v|); no-op on the zero vector
LorentzTransformationVa(self, v) ==
    LET l == Length(v)
    IN  IF l = Zero THEN self
        ELSE LorentzTransformation(self, Exp(HalfAngle(Atanh(l)), VDivide(v, l)))

-----------------------------------------------------------------------------
(* advance_time, one definition for each variant: the body of the parallel *)
(* loop for one particle.                                                  *)

AdvanceNormal(particle, delta_seconds) ==
    [particle EXCEPT !.position = VAdd(@, VScale(particle.velocity, delta_seconds))]

\* the same, with the velocity damped as well as the displacement
AdvanceSpeedOfLightLimitDamped(particle, delta_seconds) ==
    LET speed_squared == LengthSquared(particle.velocity)
        gamma_inv == Sqrt(Sub(One, Div(speed_squared, Rat(LIGHT_SPEED_SQUARED, 1))))
    IN  [particle EXCEPT
            !.velocity = VScale(@, gamma_inv),
            !.position = VAdd(@, VScale(VScale(particle.velocity, gamma_inv), delta_seconds))]

\* the same, with a guard: at and above light speed the particle stays put
AdvanceSpeedOfLightLimitClamped(particle, delta_seconds) ==
    LET speed_squared == LengthSquared(particle.velocity)
        ratio == Div(speed_squared, Rat(LIGHT_SPEED_SQUARED, 1))
        gamma_inv == IF Le(One, ratio) THEN Zero ELSE Sqrt(Sub(One, ratio))
    IN  [particle EXCEPT
            !.position = VAdd(@, VScale(VScale(particle.velocity, gamma_inv), delta_seconds))]

AdvanceSpeedOfLightLimit(particle, delta_seconds) ==
    LET speed_squared == LengthSquared(particle.velocity)
        gamma_inv == Sqrt(Sub(One, Div(speed_squared, Rat(LIGHT_SPEED_SQUARED, 1))))
    IN  [particle EXCEPT
            !.position = VAdd(@, VScale(VScale(particle.velocity, gamma_inv), delta_seconds))]

AdvanceLorentzTransformation(particle, delta_seconds, scale) ==
    LET ls == Div(scale, Rat(LIGHT_SPEED, 1))
        ct == Div(Mul(Rat(LIGHT_SPEED, 1), delta_seconds), scale)
        st == LorentzTransformationVa(FromT(ct), VScale(particle.velocity, ls))
        tau == Div(ct, st.t)
    IN  [particle EXCEPT
            !.position = VAdd(@, Vec(Mul(st.x, tau), Mul(st.y, tau), Mul(st.z, tau)))]

\* SimulationState::advance_time: the match on the variant
AdvanceTimeStep(ps, i, delta_seconds, var, scl) ==
    [ps EXCEPT ![i] =
        CASE var = "Normal" -> AdvanceNormal(@, delta_seconds)
          [] var = "SpeedOfLightLimit" -> AdvanceSpeedOfLightLimit(@, delta_seconds)
          [] var = "LorentzTransformation" ->
                AdvanceLorentzTransformation(@, delta_seconds, scl)]

\* a SimulationState value: the variant tag, the particles it wraps and, in
\* the LorentzTransformation variant, the scale
SimulationState(var, scl, ps) == [variant |-> var, scale |-> scl, particles |-> ps]

\* update_velocities on &mut self: the wrapped particles change in place
SimulationStateUpdateVelocities(self, i, positions, masses, delta_seconds) ==
    [self EXCEPT !.particles =
        UpdateVelocitiesMatch(@, i, positions, masses, delta_seconds, self.variant)]

\* an advance_time that puts its result into a Normal state
SimulationStateAdvanceTimeRetag(self, i, delta_seconds) ==
    [self EXCEPT !.particles =
                    AdvanceTimeStep(@, i, delta_seconds, self.variant, self.scale),
                 !.variant = "Normal"]

\* advance_time on &mut self: the wrapped particles change in place
SimulationStateAdvanceTime(self, i, delta_seconds) ==
    [self EXCEPT !.particles =
        AdvanceTimeStep(@, i, delta_seconds, self.variant, self.scale)]

-----------------------------------------------------------------------------
(* TetraQuaternion: 16 coefficients, a scalar and 15 basis elements that   *)
(* are pairs of quaternion components.  Coefficients are integers, which   *)
(* f64 holds exactly.                                                      *)

QuatComp == {"R", "I", "J", "K"}

\* quat_mul with the products of two different units taken as commuting
QuatMulCommuting(a, b) ==
    IF a = "R" THEN <<1, b>>
    ELSE IF b = "R" THEN <<1, a>>
    ELSE IF a = b THEN <<-1, "R">>
    ELSE <<1, CHOOSE c \in {"I", "J", "K"} : c # a /\ c # b>>

\* quat_mul: <<sign, component>>
QuatMul(a, b) ==
    IF a = "R" THEN <<1, b>>
    ELSE IF b = "R" THEN <<1, a>>
    ELSE CASE a = "I" /\ b = "I" -> <<-1, "R">>
           [] a = "I" /\ b = "J" -> <<1, "K">>
           [] a = "I" /\ b = "K" -> <<-1, "J">>
           [] a = "J" /\ b = "I" -> <<-1, "K">>
           [] a = "J" /\ b = "J" -> <<-1, "R">>
           [] a = "J" /\ b = "K" -> <<1, "I">>
           [] a = "K" /\ b = "I" -> <<1, "J">>
           [] a = "K" /\ b = "J" -> <<-1, "I">>
           [] a = "K" /\ b = "K" -> <<-1, "R">>

\* BASIS, indexed from 0 as in the source
BASIS ==
    [n \in 0..14 |->
        CASE n = 0 -> <<"J", "R">>   [] n = 1 -> <<"K", "I">>
          [] n = 2 -> <<"K", "J">>   [] n = 3 -> <<"K", "K">>
          [] n = 4 -> <<"I", "I">>   [] n = 5 -> <<"I", "J">>
          [] n = 6 -> <<"I", "K">>   [] n = 7 -> <<"R", "I">>
          [] n = 8 -> <<"R", "J">>   [] n = 9 -> <<"R", "K">>
          [] n = 10 -> <<"K", "R">>  [] n = 11 -> <<"J", "I">>
          [] n = 12 -> <<"J", "J">>  [] n = 13 -> <<"J", "K">>
          [] n = 14 -> <<"I", "R">>]

\* get_basis_index, written out as the source's match
GetBasisIndex(s, l) ==
    CASE s = "J" /\ l = "R" -> 0   [] s = "K" /\ l = "I" -> 1
      [] s = "K" /\ l = "J" -> 2   [] s = "K" /\ l = "K" -> 3
      [] s = "I" /\ l = "I" -> 4   [] s = "I" /\ l = "J" -> 5
      [] s = "I" /\ l = "K" -> 6   [] s = "R" /\ l = "I" -> 7
      [] s = "R" /\ l = "J" -> 8   [] s = "R" /\ l = "K" -> 9
      [] s = "K" /\ l = "R" -> 10  [] s = "J" /\ l = "I" -> 11
      [] s = "J" /\ l = "J" -> 12  [] s = "J" /\ l = "K" -> 13
      [] s = "I" /\ l = "R" -> 14

\* compute_mul_table: MUL_TABLE[left][right] = <<sign, out>>, out 0 for the
\* scalar and idx + 1 for the basis element idx
MUL_TABLE ==
    [left \in 0..14 |-> [right \in 0..14 |->
        LET s == QuatMul(BASIS[left][1], BASIS[right][1])
            l == QuatMul(BASIS[left][2], BASIS[right][2])
            sign == s[1] * l[1]
        IN  IF s[2] = "R" /\ l[2] = "R" THEN <<sign, 0>>
            ELSE <<sign, GetBasisIndex(s[2], l[2]) + 1>>]]

DIM == 16

\* TetraQuaternion::new
TetraQuaternionNew(real, bases) ==
    [i \in 0..(DIM - 1) |-> IF i = 0 THEN real ELSE bases[i]]

\* TetraQuaternion::one
TetraQuaternionOne == [i \in 0..(DIM - 1) |-> IF i = 0 THEN 1 ELSE 0]

\* TetraQuaternion::basis
TetraQuaternionBasis(index) == [i \in 0..(DIM - 1) |-> IF i = index + 1 THEN 1 ELSE 0]

\* impl Add
TetraQuaternionAdd(self, rhs) == [i \in 0..(DIM - 1) |-> self[i] + rhs[i]]

\* the inner loop of mul, for right in right..14: what it adds to result[k]
RECURSIVE RowContributions(_, _, _, _, _)
RowContributions(self, rhs, k, left, right) ==
    IF right = 15 THEN 0
    ELSE LET entry == MUL_TABLE[left][right]
             contrib == self[left + 1] * rhs[right + 1] * entry[1]
         IN  (IF entry[2] = k THEN contrib ELSE 0)
                 + RowContributions(self, rhs, k, left, right + 1)

\* the outer loop of mul, for left in left..14: what it adds to result[k]
RECURSIVE TableContributions(_, _, _, _)
TableContributions(self, rhs, k, left) ==
    IF left = 15 THEN 0
    ELSE RowContributions(self, rhs, k, left, 0)
             + TableContributions(self, rhs, k, left + 1)

\* mul without the line result[i] += self.coeffs[i] * rhs.coeffs[0]
TetraQuaternionMulLeftScalarOnly(self, rhs) ==
    [i \in 0..(DIM - 1) |->
        IF i = 0 THEN self[0] * rhs[0] + TableContributions(self, rhs, 0, 0)
        ELSE self[0] * rhs[i] + TableContributions(self, rhs, i, 0)]

\* impl Mul
TetraQuaternionMul(self, rhs) ==
    [i \in 0..(DIM - 1) |->
        IF i = 0 THEN self[0] * rhs[0] + TableContributions(self, rhs, 0, 0)
        ELSE self[0] * rhs[i] + self[i] * rhs[0]
                 + TableContributions(self, rhs, i, 0)]

-----------------------------------------------------------------------------
(* State.                                                                  *)

VARIABLES
    particles,      \* the particle store: Vec<Particle> of the active variant
    variant,        \* the active variant of SimulationState
    scale,          \* SimulationLorentzTransformation::scale
    call,           \* the engine call in progress: its operation, delta_seconds,
                    \* snapshot and the particles the parallel loop has yet to do
    created,        \* history: the store as it was created (or last reset)
    pre,            \* history: the store when the call in progress (or last) began
    evaluated,      \* history: the pairs (i, j) whose force the call computed
    ncalls,         \* history: engine calls completed on this store
    sim_pc,         \* where the simulation thread is in its loop
    locals,         \* the simulation thread's copies of the UiState fields
    prev_frame,     \* the simulation thread's prev_frame
    ui_state,       \* Arc<RwLock<UiState>>: the fields the threads share
    need_redraw,    \* Arc<RwLock<bool>>
    skip_redraw,    \* Arc<RwLock<u32>>
    sim_lock,       \* the RwLock of simulation_state: its writer and its readers
    render_pc,      \* where the event-loop thread is in about_to_wait
    render_copy,    \* App::positions and App::colors
    tick,           \* history: the tick in progress, its start store and its calls
    nticks,         \* history: ticks completed since the store was created
    nresets,        \* history: resets served
    last_request,   \* history: the skip loaded by the last redraw request and
                    \* the ticks completed since then
    st,             \* a Spacetime value the four-vector operations are called on
    last,           \* history: the last four-vector operation called, its
                    \* arguments, the boost it built and what it returned
    tq,             \* a TetraQuaternion value the operators are applied to
    tqlast,         \* history: the last TetraQuaternion operator applied
    animating_y_top,      \* OrbitCamera::animating_y_top
    animating_to_origin,  \* OrbitCamera::animating_to_origin
    start_time,     \* OrbitCamera::start_time: "None" or "Some"
    camlast         \* history: the last OrbitCamera call and the counters before it

engineVars == <<particles, variant, scale, call>>

historyVars == <<created, pre, evaluated, ncalls>>

driverVars ==
    <<sim_pc, locals, prev_frame, ui_state, need_redraw, skip_redraw, sim_lock,
      render_pc, render_copy, tick, nticks, nresets, last_request>>

algebraVars == <<st, last>>

tetraVars == <<tq, tqlast>>

cameraVars == <<animating_y_top, animating_to_origin, start_time, camlast>>

libraryVars == <<algebraVars, tetraVars, cameraVars>>

vars == <<engineVars, historyVars, driverVars, libraryVars>>

\* largest number of engine calls in one run
MaxCalls == 2

Idle == [op |-> "idle", delta_seconds |-> Zero, positions |-> <<>>, masses |-> <<>>,
         pending |-> {}]

-----------------------------------------------------------------------------
(* The stores a run starts from: what the initial-condition generator may  *)
(* hand over.                                                              *)

Vi(x, y, z) == Vec(Rat(x, 1), Rat(y, 1), Rat(z, 1))

Origin == Vi(0, 0, 0)

\* second positions: distances 3, 4 and 5 from the origin, the distance 1 whose
\* square is EPSILON, the distance 1/2 below it, and the origin itself
SecondPositions ==
    {Vi(3, 0, 0), Vi(0, 4, 0), Vi(3, 4, 0), Vi(1, 0, 0),
     Vec(Rat(1, 2), Zero, Zero), Origin}

\* speeds below, at and above LIGHT_SPEED
Velocities ==
    {VZero, Vec(Rat(6, 5), Zero, Zero), Vec(Rat(18, 17), Rat(24, 17), Zero),
     Vi(2, 0, 0), Vi(3, 0, 0)}

Scales == {One, Two}

DeltaSeconds == {One, Two}

\* values of delta_seconds in advance_time: a step of no time as well
AdvanceDeltaSeconds == DeltaSeconds \cup {Zero}

OneBodyStores == {<<Particle(Origin, v, One, "red")>> : v \in Velocities}

TwoBodyStores ==
    {<<Particle(Origin, VZero, m[1], "red"), Particle(p, v, m[2], "green")>> :
        p \in SecondPositions, v \in Velocities,
        m \in {<<One, Zero>>, <<One, Rat(3, 1)>>, <<Rat(3, 1), One>>, <<Zero, Zero>>}}

ThreeBodyStores ==
    {<<Particle(Origin, v, One, "red"), Particle(Vi(3, 0, 0), VZero, m, "green"),
       Particle(p, VZero, Rat(3, 1), "blue")>> :
        v \in {VZero, Vi(0, 1, 0)}, m \in {Zero, One},
        p \in {Vi(3, 4, 0), Vi(3, 0, 0), Vi(-1, 0, 0)}}

Stores == OneBodyStores \cup TwoBodyStores \cup ThreeBodyStores

-----------------------------------------------------------------------------
(* The engine under any sequence of calls (SpecEngine).                    *)

StoreUnrep(ps) ==
    \E k \in 1..Len(ps) : VUnrep(ps[k].position) \/ VUnrep(ps[k].velocity)

RECURSIVE UpdateVelocitiesInOrder(_, _, _, _, _, _)
UpdateVelocitiesInOrder(ps, upto, positions, masses, delta_seconds, var) ==
    IF upto = 0 THEN ps
    ELSE UpdateVelocitiesMatch(
             UpdateVelocitiesInOrder(ps, upto - 1, positions, masses,
                                     delta_seconds, var),
             upto, positions, masses, delta_seconds, var)

RECURSIVE AdvanceTimeInOrder(_, _, _, _, _)
AdvanceTimeInOrder(ps, upto, delta_seconds, var, scl) ==
    IF upto = 0 THEN ps
    ELSE AdvanceTimeStep(AdvanceTimeInOrder(ps, upto - 1, delta_seconds, var, scl),
                         upto, delta_seconds, var, scl)

\* update_velocities begins: the snapshot is taken, every particle is pending
BeginUpdateVelocities(delta_seconds) ==
    /\ call.op = "idle"
    /\ ~StoreUnrep(UpdateVelocitiesInOrder(particles, Len(particles),
            SnapshotPositions(particles), SnapshotMasses(particles), delta_seconds,
            variant))
    /\ call' = [op |-> "update_velocities", delta_seconds |-> delta_seconds,
                positions |-> SnapshotPositions(particles),
                masses |-> SnapshotMasses(particles),
                pending |-> 1..Len(particles)]
    /\ pre' = particles
    /\ evaluated' = {}
    /\ UNCHANGED <<particles, variant, scale, created, ncalls>>

\* one iteration of par_iter_mut().enumerate().for_each, in any order
UpdateVelocityOf(i) ==
    /\ call.op = "update_velocities"
    /\ i \in call.pending
    /\ LET self == SimulationStateUpdateVelocities(
                       SimulationState(variant, scale, particles), i,
                       call.positions, call.masses, call.delta_seconds)
       IN  /\ particles' = self.particles
           /\ variant' = self.variant
           /\ scale' = self.scale
    /\ call' = [call EXCEPT !.pending = @ \ {i}]
    /\ evaluated' = evaluated \cup
            {<<i, j>> : j \in {k \in 1..Len(particles) :
                ~PairSkipped(i, k, particles[i].position, call.positions[k])}}
    /\ UNCHANGED <<created, pre, ncalls>>

BeginAdvanceTime(delta_seconds) ==
    /\ call.op = "idle"
    /\ ~StoreUnrep(AdvanceTimeInOrder(particles, Len(particles), delta_seconds,
                                      variant, scale))
    /\ call' = [Idle EXCEPT !.op = "advance_time", !.delta_seconds = delta_seconds,
                            !.pending = 1..Len(particles)]
    /\ pre' = particles
    /\ evaluated' = {}
    /\ UNCHANGED <<particles, variant, scale, created, ncalls>>

\* one iteration of par_iter_mut().for_each, in any order
AdvancePositionOf(i) ==
    /\ call.op = "advance_time"
    /\ i \in call.pending
    /\ LET self == SimulationStateAdvanceTime(
                       SimulationState(variant, scale, particles), i,
                       call.delta_seconds)
       IN  /\ particles' = self.particles
           /\ variant' = self.variant
           /\ scale' = self.scale
    /\ call' = [call EXCEPT !.pending = @ \ {i}]
    /\ UNCHANGED historyVars

\* the parallel loop has done every particle: the call returns
Return ==
    /\ call.op # "idle"
    /\ call.pending = {}
    /\ call' = [call EXCEPT !.op = "idle"]
    /\ ncalls' = ncalls + 1
    /\ UNCHANGED <<particles, variant, scale, created, pre, evaluated>>

\* no four-vector operation has been called
NoCall ==
    [op |-> "none", before |-> Spacetime(Zero, Zero, Zero, Zero),
     v |-> VZero, c |-> Zero, m |-> Zero, boosts |-> <<>>,
     g |-> Spacetime(Zero, Zero, Zero, Zero),
     value |-> Zero, out |-> VZero, n |-> 0]

AlgebraIdle == st = Spacetime(One, Zero, Zero, Zero) /\ last = NoCall

\* no TetraQuaternion operator has been applied
NoProduct == [op |-> "none", lhs |-> TetraQuaternionOne, rhs |-> TetraQuaternionOne, n |-> 0]

TetraIdle == tq = TetraQuaternionOne /\ tqlast = NoProduct

\* no OrbitCamera call has been made
NoCameraCall ==
    [op |-> "none", elapsed |-> FALSE, y_top |-> 0, to_origin |-> 0,
     start_time |-> "None", n |-> 0]

\* OrbitCamera::new
CameraNew ==
    /\ animating_y_top = 0
    /\ animating_to_origin = 0
    /\ start_time = "None"
    /\ camlast = NoCameraCall

LibraryIdle == AlgebraIdle /\ TetraIdle /\ CameraNew

\* the driver's variables once App::default() and App::resumed() have run:
\* need_redraw is true, skip_redraw is UiState::skip, time_per_frame is sim.dt
DriverInit(dt) ==
    /\ sim_pc = "head"
    /\ locals = [is_running |-> FALSE, time_per_frame |-> dt,
                 is_reset_requested |-> FALSE, skip |-> 0]
    /\ prev_frame = 1
    /\ ui_state = [fps |-> 0, frame |-> 1, simulation_time |-> Zero,
                   time_per_frame |-> dt, is_running |-> FALSE,
                   is_reset_requested |-> FALSE, skip |-> 0]
    /\ need_redraw = TRUE
    /\ skip_redraw = 0
    /\ sim_lock = [writer |-> "none", readers |-> {}]
    /\ render_pc = "wait"
    /\ render_copy = [positions |-> <<>>, colors |-> <<>>, during |-> 0]
    /\ tick = [k |-> 0, log |-> <<>>, start |-> <<>>]
    /\ nticks = 0
    /\ nresets = 0
    /\ last_request = [skip |-> 0, ticks |-> 0]

EngineInit ==
    /\ variant \in Variants
    /\ scale \in (IF variant = "LorentzTransformation" THEN Scales ELSE {One})
    /\ particles \in Stores
    /\ call = Idle
    /\ created = particles
    /\ pre = particles
    /\ evaluated = {}
    /\ ncalls = 0
    /\ DriverInit(One)
    /\ LibraryIdle

EngineNext ==
    \/ \E delta_seconds \in DeltaSeconds :
          /\ ncalls < MaxCalls
          /\ BeginUpdateVelocities(delta_seconds)
          /\ UNCHANGED <<driverVars, libraryVars>>
    \/ \E i \in 1..Len(particles) : UpdateVelocityOf(i) /\ UNCHANGED <<driverVars, libraryVars>>
    \/ \E delta_seconds \in AdvanceDeltaSeconds :
          /\ ncalls < MaxCalls
          /\ BeginAdvanceTime(delta_seconds)
          /\ UNCHANGED <<driverVars, libraryVars>>
    \/ \E i \in 1..Len(particles) : AdvancePositionOf(i) /\ UNCHANGED <<driverVars, libraryVars>>
    \/ Return /\ UNCHANGED <<driverVars, libraryVars>>

SpecEngine == EngineInit /\ [][EngineNext]_vars

-----------------------------------------------------------------------------
(* The driver: the simulation thread and the event-loop thread (Spec).     *)

\* largest frame number the simulation thread ticks up to
MaxFrame == 3

\* largest number of resets served
MaxResets == 1

\* values of the skip slider
Skips == {0, 1}

\* what the reset button's preset writes: time_per_frame and skip
Presets == {<<One, 0>>, <<Two, 1>>}

\* two bodies on the x axis, as the initial-condition generators create them
DriverStores ==
    { <<Particle(Origin, VZero, Rat(3, 1), "red"),
        Particle(Vi(3, 0, 0), VZero, Rat(3, 1), "green")>>,
      <<Particle(Origin, VZero, One, "red"),
        Particle(Vi(3, 0, 0), Vec(Rat(30, 17), Zero, Zero), Rat(3, 1), "green")>> }

\* the stores sim.reset(particle_count) may leave: the store is replaced
\* wholesale by a newly generated one
ResetStores == DriverStores

\* `as f32`: the single-precision number nearest to x, kept as a tagged value
AsF32(x) == [f32 |-> x]

\* the calls of one tick, in the order the simulation thread makes them
TickOpsUpdateFirst(time_per_frame) ==
    << [op |-> "update_velocities", delta_seconds |-> time_per_frame],
       [op |-> "advance_time", delta_seconds |-> time_per_frame] >>

TickOps(time_per_frame) ==
    << [op |-> "advance_time", delta_seconds |-> time_per_frame],
       [op |-> "update_velocities", delta_seconds |-> time_per_frame] >>

\* the call of a tick after which the write guard `sim` is dropped
ReleaseAfterFirst(ops) == 1

ReleaseAfter(ops) == Len(ops)

\* the store after the calls ops[1..k], each parallel loop taken in index order
RECURSIVE TickResult(_, _, _, _, _)
TickResult(ps, ops, k, var, scl) ==
    IF k = 0 THEN ps
    ELSE LET before == TickResult(ps, ops, k - 1, var, scl)
         IN  IF ops[k].op = "advance_time"
             THEN AdvanceTimeInOrder(before, Len(before), ops[k].delta_seconds,
                                     var, scl)
             ELSE UpdateVelocitiesInOrder(before, Len(before),
                      SnapshotPositions(before), SnapshotMasses(before),
                      ops[k].delta_seconds, var)

\* a loop head that does not look at need_redraw
SimHeadNoWait ==
    /\ sim_pc = "head"
    /\ sim_pc' = "read_ui"
    /\ UNCHANGED <<engineVars, historyVars, locals, prev_frame, ui_state,
                   need_redraw, skip_redraw, sim_lock, render_pc, render_copy,
                   tick, nticks, nresets,
                   last_request>>

\* loop head: while need_redraw is set the thread sleeps and starts over
SimHead ==
    /\ sim_pc = "head"
    /\ ~need_redraw
    /\ sim_pc' = "read_ui"
    /\ UNCHANGED <<engineVars, historyVars, locals, prev_frame, ui_state,
                   need_redraw, skip_redraw, sim_lock, render_pc, render_copy,
                   tick, nticks, nresets,
                   last_request>>

\* a read of the UiState that does not act on is_reset_requested
SimReadUiNoReset ==
    /\ sim_pc = "read_ui"
    /\ locals' = [is_running |-> ui_state.is_running,
                  time_per_frame |-> ui_state.time_per_frame,
                  is_reset_requested |-> ui_state.is_reset_requested,
                  skip |-> ui_state.skip]
    /\ sim_pc' = "fps"
    /\ UNCHANGED <<engineVars, historyVars, prev_frame, ui_state, need_redraw,
                   skip_redraw, sim_lock, render_pc, render_copy, tick, nticks,
                   nresets,
                   last_request>>

\* the thread copies the UiState fields it uses
SimReadUi ==
    /\ sim_pc = "read_ui"
    /\ locals' = [is_running |-> ui_state.is_running,
                  time_per_frame |-> ui_state.time_per_frame,
                  is_reset_requested |-> ui_state.is_reset_requested,
                  skip |-> ui_state.skip]
    /\ sim_pc' = IF ui_state.is_reset_requested THEN "reset" ELSE "fps"
    /\ UNCHANGED <<engineVars, historyVars, prev_frame, ui_state, need_redraw,
                   skip_redraw, sim_lock, render_pc, render_copy, tick, nticks,
                   nresets,
                   last_request>>

\* sim.reset(particle_count) under the write lock: the store is replaced
SimReset ==
    /\ sim_pc = "reset"
    /\ sim_lock.writer = "none" /\ sim_lock.readers = {}
    /\ particles' \in ResetStores
    /\ created' = particles'
    /\ pre' = particles'
    /\ evaluated' = {}
    /\ nticks' = 0
    /\ ncalls' = 0
    /\ nresets' = nresets + 1
    /\ sim_pc' = "reset_ui"
    /\ UNCHANGED <<variant, scale, call, locals, prev_frame, ui_state,
                   need_redraw, skip_redraw, sim_lock, render_pc, render_copy,
                   tick, last_request>>

SimResetUi ==
    /\ sim_pc = "reset_ui"
    /\ ui_state' = [ui_state EXCEPT !.frame = 1, !.simulation_time = Zero,
                                    !.is_reset_requested = FALSE]
    /\ sim_pc' = "reset_redraw"
    /\ UNCHANGED <<engineVars, historyVars, locals, prev_frame, need_redraw,
                   skip_redraw, sim_lock, render_pc, render_copy, tick, nticks,
                   nresets,
                   last_request>>

SimResetRedraw ==
    /\ sim_pc = "reset_redraw"
    /\ need_redraw' = TRUE
    /\ sim_pc' = "reset_skip"
    /\ UNCHANGED <<engineVars, historyVars, locals, prev_frame, ui_state,
                   skip_redraw, sim_lock, render_pc, render_copy, tick, nticks,
                   nresets,
                   last_request>>

SimResetSkip ==
    /\ sim_pc = "reset_skip"
    /\ skip_redraw' = locals.skip
    /\ last_request' = [skip |-> locals.skip, ticks |-> 0]
    /\ sim_pc' = "head"
    /\ UNCHANGED <<engineVars, historyVars, locals, prev_frame, ui_state,
                   need_redraw, sim_lock, render_pc, render_copy, tick, nticks,
                   nresets>>

\* the tick of the store as it is stays within the range of the model
TickInRange ==
    LET ops == TickOps(locals.time_per_frame)
    IN  ~StoreUnrep(TickResult(particles, ops, Len(ops), variant, scale))

\* an fps accounting that stores the difference as it is
SimFpsSigned ==
    /\ sim_pc = "fps"
    /\ \E second_passed \in BOOLEAN :
          IF second_passed
          THEN /\ ui_state' = [ui_state EXCEPT !.fps = ui_state.frame - prev_frame]
               /\ prev_frame' = ui_state.frame
          ELSE UNCHANGED <<ui_state, prev_frame>>
    /\ \E frame_due \in BOOLEAN :
          sim_pc' = IF /\ locals.is_running /\ frame_due
                       /\ ui_state.frame < MaxFrame /\ TickInRange
                    THEN "tick" ELSE "head"
    /\ UNCHANGED <<engineVars, historyVars, locals, need_redraw, skip_redraw,
                   sim_lock, render_pc, render_copy, tick, nticks, nresets,
                   last_request>>

\* the fps accounting when a second has passed, then the is_running test and
\* the pacing test (max_fps); the clock readings are inputs, and no frame is
\* due once the frame counter has reached MaxFrame or the tick would leave
\* the range of the model
SimFps ==
    /\ sim_pc = "fps"
    /\ \E second_passed \in BOOLEAN :
          IF second_passed
          THEN /\ ui_state' = [ui_state EXCEPT !.fps =
                      IF ui_state.frame - prev_frame > 0
                      THEN ui_state.frame - prev_frame ELSE 0]
               /\ prev_frame' = ui_state.frame
          ELSE UNCHANGED <<ui_state, prev_frame>>
    /\ \E frame_due \in BOOLEAN :
          sim_pc' = IF /\ locals.is_running /\ frame_due
                       /\ ui_state.frame < MaxFrame /\ TickInRange
                    THEN "tick" ELSE "head"
    /\ UNCHANGED <<engineVars, historyVars, locals, need_redraw, skip_redraw,
                   sim_lock, render_pc, render_copy, tick, nticks, nresets,
                   last_request>>

\* simulation_state.write(): granted when no guard is out; the tick starts
TickAcquire ==
    /\ sim_pc = "tick"
    /\ sim_lock.writer = "none" /\ sim_lock.readers = {}
    /\ sim_lock' = [sim_lock EXCEPT !.writer = "sim"]
    /\ tick' = [k |-> 1, log |-> <<>>, start |-> particles]
    /\ sim_pc' = "ops"
    /\ UNCHANGED <<engineVars, historyVars, locals, prev_frame, ui_state,
                   need_redraw, skip_redraw, render_pc, render_copy, nticks,
                   nresets,
                   last_request>>

\* the next call of the tick begins
TickCall ==
    /\ sim_pc = "ops"
    /\ tick.k \in 1..Len(TickOps(locals.time_per_frame))
    /\ LET c == TickOps(locals.time_per_frame)[tick.k]
       IN  /\ IF c.op = "advance_time"
              THEN BeginAdvanceTime(c.delta_seconds)
              ELSE BeginUpdateVelocities(c.delta_seconds)
           /\ tick' = [tick EXCEPT !.log = Append(@, c)]
    /\ UNCHANGED <<sim_pc, locals, prev_frame, ui_state, need_redraw,
                   skip_redraw, sim_lock, render_pc, render_copy, nticks,
                   nresets,
                   last_request>>

\* the thread pool runs one iteration of the call's parallel loop
TickStep ==
    /\ sim_pc = "ops"
    /\ \E i \in 1..Len(particles) : UpdateVelocityOf(i) \/ AdvancePositionOf(i)
    /\ UNCHANGED driverVars

\* the call returns; after the last call the guard is dropped and the tick ends
TickReturn ==
    /\ sim_pc = "ops"
    /\ Return
    /\ LET ops == TickOps(locals.time_per_frame)
       IN  /\ sim_lock' = IF tick.k = ReleaseAfter(ops)
                          THEN [sim_lock EXCEPT !.writer = "none"]
                          ELSE sim_lock
           /\ IF tick.k = Len(ops)
              THEN /\ tick' = [tick EXCEPT !.k = 0]
                   /\ nticks' = nticks + 1
                   /\ sim_pc' = "skip_redraw"
              ELSE /\ tick' = [tick EXCEPT !.k = @ + 1]
                   /\ UNCHANGED <<nticks, sim_pc>>
    /\ UNCHANGED <<locals, prev_frame, ui_state, need_redraw, skip_redraw,
                   render_pc, render_copy, nresets,
                   last_request>>

\* a countdown that is reloaded when it is below 2, one tick early
SimSkipRedrawEarly ==
    /\ sim_pc = "skip_redraw"
    /\ IF skip_redraw < 2
       THEN /\ skip_redraw' = locals.skip
            /\ need_redraw' = TRUE
            /\ last_request' = [skip |-> locals.skip, ticks |-> 0]
       ELSE /\ skip_redraw' = skip_redraw - 1
            /\ last_request' = [last_request EXCEPT !.ticks = @ + 1]
            /\ UNCHANGED need_redraw
    /\ sim_pc' = "frame"
    /\ UNCHANGED <<engineVars, historyVars, locals, prev_frame, ui_state,
                   sim_lock, render_pc, render_copy, tick, nticks, nresets>>

\* after the tick: a countdown below 1 is reloaded with skip and a redraw is
\* requested, any other countdown loses one; a value below 0 would stand for
\* the underflow of the u32
SimSkipRedraw ==
    /\ sim_pc = "skip_redraw"
    /\ IF skip_redraw < 1
       THEN /\ skip_redraw' = locals.skip
            /\ need_redraw' = TRUE
            /\ last_request' = [skip |-> locals.skip, ticks |-> 0]
       ELSE /\ skip_redraw' = skip_redraw - 1
            /\ last_request' = [last_request EXCEPT !.ticks = @ + 1]
            /\ UNCHANGED need_redraw
    /\ sim_pc' = "frame"
    /\ UNCHANGED <<engineVars, historyVars, locals, prev_frame, ui_state,
                   sim_lock, render_pc, render_copy, tick, nticks, nresets>>

SimFrame ==
    /\ sim_pc = "frame"
    /\ ui_state' = [ui_state EXCEPT
            !.frame = @ + 1,
            !.simulation_time = Add(@, locals.time_per_frame)]
    /\ sim_pc' = "head"
    /\ UNCHANGED <<engineVars, historyVars, locals, prev_frame, need_redraw,
                   skip_redraw, sim_lock, render_pc, render_copy, tick, nticks,
                   nresets,
                   last_request>>

\* about_to_wait: nothing to do unless need_redraw is set
RenderCheck ==
    /\ render_pc = "wait"
    /\ need_redraw
    /\ render_pc' = "try_read"
    /\ UNCHANGED <<engineVars, historyVars, sim_pc, locals, prev_frame, ui_state,
                   need_redraw, skip_redraw, sim_lock, render_copy, tick, nticks,
                   nresets,
                   last_request>>

\* simulation_state.try_read(): fails while a write guard is out; on success
\* the positions are copied
RenderTryRead ==
    /\ render_pc = "try_read"
    /\ IF sim_lock.writer = "none"
       THEN /\ sim_lock' = [sim_lock EXCEPT !.readers = @ \cup {"render"}]
            /\ render_copy' = [render_copy EXCEPT
                    !.positions = [k \in 1..Len(particles) |->
                        [c \in 1..3 |-> AsF32(particles[k].position[c])]],
                    !.during = tick.k]
            /\ render_pc' = "colors"
       ELSE /\ render_pc' = "wait"
            /\ UNCHANGED <<sim_lock, render_copy>>
    /\ UNCHANGED <<engineVars, historyVars, sim_pc, locals, prev_frame, ui_state,
                   need_redraw, skip_redraw, tick, nticks, nresets,
                   last_request>>

RenderColors ==
    /\ render_pc = "colors"
    /\ render_copy' = [render_copy EXCEPT
            !.colors = [k \in 1..Len(particles) |-> particles[k].color]]
    /\ render_pc' = "clear"
    /\ UNCHANGED <<engineVars, historyVars, sim_pc, locals, prev_frame, ui_state,
                   need_redraw, skip_redraw, sim_lock, tick, nticks, nresets,
                   last_request>>

RenderClear ==
    /\ render_pc = "clear"
    /\ need_redraw' = FALSE
    /\ render_pc' = "release"
    /\ UNCHANGED <<engineVars, historyVars, sim_pc, locals, prev_frame, ui_state,
                   skip_redraw, sim_lock, render_copy, tick, nticks, nresets,
                   last_request>>

\* set_particles is done and the read guard goes out of scope
RenderRelease ==
    /\ render_pc = "release"
    /\ sim_lock' = [sim_lock EXCEPT !.readers = @ \ {"render"}]
    /\ render_pc' = "wait"
    /\ UNCHANGED <<engineVars, historyVars, sim_pc, locals, prev_frame, ui_state,
                   need_redraw, skip_redraw, render_copy, tick, nticks, nresets,
                   last_request>>

\* draw_ui runs on the event-loop thread, between two about_to_wait calls
ClickStartPause ==
    /\ render_pc = "wait"
    /\ ui_state' = [ui_state EXCEPT !.is_running = ~@]
    /\ UNCHANGED <<engineVars, historyVars, sim_pc, locals, prev_frame,
                   need_redraw, skip_redraw, sim_lock, render_pc, render_copy,
                   tick, nticks, nresets,
                   last_request>>

SlideSkip(k) ==
    /\ render_pc = "wait"
    /\ ui_state' = [ui_state EXCEPT !.skip = k]
    /\ UNCHANGED <<engineVars, historyVars, sim_pc, locals, prev_frame,
                   need_redraw, skip_redraw, sim_lock, render_pc, render_copy,
                   tick, nticks, nresets,
                   last_request>>

\* the reset button, shown while no reset is pending; the preset of the chosen
\* initial condition overwrites time_per_frame and skip
ClickReset ==
    /\ render_pc = "wait"
    /\ ~ui_state.is_reset_requested
    /\ nresets + 1 <= MaxResets
    /\ \E preset \in Presets :
          ui_state' = [ui_state EXCEPT !.is_reset_requested = TRUE,
                                       !.time_per_frame = preset[1],
                                       !.skip = preset[2]]
    /\ UNCHANGED <<engineVars, historyVars, sim_pc, locals, prev_frame,
                   need_redraw, skip_redraw, sim_lock, render_pc, render_copy,
                   tick, nticks, nresets,
                   last_request>>

Init ==
    /\ variant \in Variants
    /\ scale = One
    /\ particles \in DriverStores
    /\ call = Idle
    /\ created = particles
    /\ pre = particles
    /\ evaluated = {}
    /\ ncalls = 0
    /\ DriverInit(One)
    /\ LibraryIdle

Next ==
    \/ SimHead /\ UNCHANGED libraryVars
    \/ SimReadUi /\ UNCHANGED libraryVars
    \/ SimReset /\ UNCHANGED libraryVars
    \/ SimResetUi /\ UNCHANGED libraryVars
    \/ SimResetRedraw /\ UNCHANGED libraryVars
    \/ SimResetSkip /\ UNCHANGED libraryVars
    \/ SimFps /\ UNCHANGED libraryVars
    \/ TickAcquire /\ UNCHANGED libraryVars
    \/ TickCall /\ UNCHANGED libraryVars
    \/ TickStep /\ UNCHANGED libraryVars
    \/ TickReturn /\ UNCHANGED libraryVars
    \/ SimSkipRedraw /\ UNCHANGED libraryVars
    \/ SimFrame /\ UNCHANGED libraryVars
    \/ RenderCheck /\ UNCHANGED libraryVars
    \/ RenderTryRead /\ UNCHANGED libraryVars
    \/ RenderColors /\ UNCHANGED libraryVars
    \/ RenderClear /\ UNCHANGED libraryVars
    \/ RenderRelease /\ UNCHANGED libraryVars
    \/ ClickStartPause /\ UNCHANGED libraryVars
    \/ \E k \in Skips : SlideSkip(k) /\ UNCHANGED libraryVars
    \/ ClickReset /\ UNCHANGED libraryVars

Spec == Init /\ [][Next]_vars

\* the steps of the simulation thread, an OS thread that runs its loop for
\* as long as the program runs
SimThread ==
    \/ SimHead \/ SimReadUi \/ SimReset \/ SimResetUi \/ SimResetRedraw
    \/ SimResetSkip \/ SimFps \/ TickAcquire \/ TickCall \/ TickStep
    \/ TickReturn \/ SimSkipRedraw \/ SimFrame

\* the steps of about_to_wait, which the event loop calls again and again
RenderThread ==
    \/ RenderCheck \/ RenderTryRead \/ RenderColors \/ RenderClear
    \/ RenderRelease

\* the simulation thread can take a step: it waits at the loop head while
\* need_redraw is set and for the write lock while a read guard is out
SimThreadEnabled ==
    /\ sim_pc = "head" => ~need_redraw
    /\ sim_pc \in {"reset", "tick"} =>
          (sim_lock.writer = "none" /\ sim_lock.readers = {})

\* the driver with both threads scheduled again and again: weak fairness of
\* each thread, that of the simulation thread written out with its enabling
\* condition as a state predicate
SpecFair ==
    /\ Spec
    /\ ([]<>(~SimThreadEnabled) \/ []<><<SimThread /\ UNCHANGED libraryVars>>_vars)
    /\ WF_vars(RenderThread /\ UNCHANGED libraryVars)

-----------------------------------------------------------------------------
(* The four-vector operations called on their own (SpecSpacetime).         *)

\* largest number of operations called in one run
MaxApplied == 2

FourVectors ==
    { SpacetimeZero, SpacetimeIdentity, FromT(Two),
      Spacetime(One, Two, Rat(3, 1), Rat(4, 1)),
      Spacetime(Two, One, Zero, Zero) }

VectorInputs == {VZero, Vi(1, 0, 0), Vi(2, 0, 0), Vi(0, 0, 1), Vi(0, 3, 4)}

\* values of speed_of_light_inv
LightSpeedInverses == {Zero, One, Rat(15, 17), Rat(15, 68)}

MassInputs == {Zero, One, Two}

\* values of speed_of_light
LightSpeeds == {Zero, One, Two}

SpacetimeUnrep(s) == IsUnrep(s.t) \/ IsUnrep(s.x) \/ IsUnrep(s.y) \/ IsUnrep(s.z)

\* four-vectors handed to lorentz_transformation as g: the identity, unit
\* ones along one, two and three axes, and ones that are not unit
BoostInputs ==
    { SpacetimeIdentity,
      Spacetime(Rat(5, 4), Rat(3, 4), Zero, Zero),
      Spacetime(Rat(3, 1), Two, Two, Zero),
      Spacetime(Two, One, One, One),
      Spacetime(Two, One, Zero, Zero),
      Spacetime(One, Zero, One, Zero) }

CallLorentzTransformation(g) ==
    /\ last.n < MaxApplied
    /\ ~SpacetimeUnrep(LorentzTransformation(st, g))
    /\ st' = LorentzTransformation(st, g)
    /\ last' = [NoCall EXCEPT !.op = "lorentz_transformation", !.before = st,
                              !.g = g, !.n = last.n + 1]
    /\ UNCHANGED <<engineVars, historyVars, driverVars, tetraVars, cameraVars>>

CallLorentzTransformationV(v, speed_of_light_inv) ==
    /\ last.n < MaxApplied
    /\ LET r == LorentzTransformationV(st, v, speed_of_light_inv)
       IN  /\ ~SpacetimeUnrep(r.self)
           /\ st' = r.self
           /\ last' = [NoCall EXCEPT !.op = "lorentz_transformation_v",
                                     !.before = st, !.v = v,
                                     !.c = speed_of_light_inv,
                                     !.boosts = r.boosts, !.n = last.n + 1]
    /\ UNCHANGED <<engineVars, historyVars, driverVars, tetraVars, cameraVars>>

CallLorentzTransformationRapidity(rapidity) ==
    /\ last.n < MaxApplied
    /\ LET r == LorentzTransformationRapidity(st, rapidity)
       IN  /\ ~SpacetimeUnrep(r.self)
           /\ st' = r.self
           /\ last' = [NoCall EXCEPT !.op = "lorentz_transformation_rapidity",
                                     !.before = st, !.v = rapidity,
                                     !.boosts = r.boosts, !.n = last.n + 1]
    /\ UNCHANGED <<engineVars, historyVars, driverVars, tetraVars, cameraVars>>

CallNorm ==
    /\ last.n < MaxApplied
    /\ ~IsUnrep(Norm(st))
    /\ last' = [NoCall EXCEPT !.op = "norm", !.before = st, !.value = Norm(st),
                              !.n = last.n + 1]
    /\ UNCHANGED <<st, engineVars, historyVars, driverVars, tetraVars, cameraVars>>

CallConjugated ==
    /\ last.n < MaxApplied
    /\ st' = Conjugated(st)
    /\ last' = [NoCall EXCEPT !.op = "conjugated", !.before = st,
                              !.n = last.n + 1]
    /\ UNCHANGED <<engineVars, historyVars, driverVars, tetraVars, cameraVars>>

CallRapidityVector(v, speed_of_light_inv) ==
    /\ last.n < MaxApplied
    /\ ~VUnrep(RapidityVector(v, speed_of_light_inv))
    /\ last' = [NoCall EXCEPT !.op = "rapidity_vector", !.before = st, !.v = v,
                              !.c = speed_of_light_inv,
                              !.out = RapidityVector(v, speed_of_light_inv),
                              !.n = last.n + 1]
    /\ UNCHANGED <<st, engineVars, historyVars, driverVars, tetraVars, cameraVars>>

CallRapidityFromMomentum(p, m, speed_of_light) ==
    /\ last.n < MaxApplied
    /\ ~VUnrep(RapidityFromMomentum(p, m, speed_of_light))
    /\ last' = [NoCall EXCEPT !.op = "rapidity_from_momentum", !.before = st,
                              !.v = p, !.m = m, !.c = speed_of_light,
                              !.out = RapidityFromMomentum(p, m, speed_of_light),
                              !.n = last.n + 1]
    /\ UNCHANGED <<st, engineVars, historyVars, driverVars, tetraVars, cameraVars>>

SpacetimeInit ==
    /\ variant = "Normal"
    /\ scale = One
    /\ particles = <<>>
    /\ call = Idle
    /\ created = particles
    /\ pre = particles
    /\ evaluated = {}
    /\ ncalls = 0
    /\ DriverInit(One)
    /\ st \in FourVectors
    /\ last = NoCall
    /\ TetraIdle
    /\ CameraNew

SpacetimeNext ==
    \/ \E g \in BoostInputs : CallLorentzTransformation(g)
    \/ \E v \in VectorInputs, speed_of_light_inv \in LightSpeedInverses :
          CallLorentzTransformationV(v, speed_of_light_inv)
    \/ \E rapidity \in VectorInputs : CallLorentzTransformationRapidity(rapidity)
    \/ CallNorm
    \/ CallConjugated
    \/ \E v \in VectorInputs, speed_of_light_inv \in LightSpeedInverses :
          CallRapidityVector(v, speed_of_light_inv)
    \/ \E p \in VectorInputs, m \in MassInputs, speed_of_light \in LightSpeeds :
          CallRapidityFromMomentum(p, m, speed_of_light)

SpecSpacetime == SpacetimeInit /\ [][SpacetimeNext]_vars

-----------------------------------------------------------------------------
(* The TetraQuaternion operators applied on their own (SpecTetra).         *)

\* largest number of operators applied in one run
MaxOperators == 1

\* one(), the 15 basis elements, and new(1, [2, 3, ..., 16])
TetraInputs ==
    {TetraQuaternionOne}
        \cup {TetraQuaternionBasis(index) : index \in 0..14}
        \cup {TetraQuaternionNew(1, [i \in 1..15 |-> i + 1])}

\* impl MulAssign: *self = *self * rhs
CallMulAssign(rhs) ==
    /\ tqlast.n < MaxOperators
    /\ tq' = TetraQuaternionMul(tq, rhs)
    /\ tqlast' = [op |-> "mul", lhs |-> tq, rhs |-> rhs, n |-> tqlast.n + 1]
    /\ UNCHANGED <<engineVars, historyVars, driverVars, algebraVars, cameraVars>>

\* impl AddAssign
CallAddAssign(rhs) ==
    /\ tqlast.n < MaxOperators
    /\ tq' = TetraQuaternionAdd(tq, rhs)
    /\ tqlast' = [op |-> "add", lhs |-> tq, rhs |-> rhs, n |-> tqlast.n + 1]
    /\ UNCHANGED <<engineVars, historyVars, driverVars, algebraVars, cameraVars>>

TetraInit ==
    /\ variant = "Normal"
    /\ scale = One
    /\ particles = <<>>
    /\ call = Idle
    /\ created = particles
    /\ pre = particles
    /\ evaluated = {}
    /\ ncalls = 0
    /\ DriverInit(One)
    /\ AlgebraIdle
    /\ CameraNew
    /\ tq \in TetraInputs
    /\ tqlast = NoProduct

TetraNext ==
    \/ \E rhs \in TetraInputs : CallMulAssign(rhs)
    \/ \E rhs \in {TetraQuaternionOne, TetraQuaternionBasis(0)} : CallAddAssign(rhs)

SpecTetra == TetraInit /\ [][TetraNext]_vars

-----------------------------------------------------------------------------
(* The camera animation of OrbitCamera on its own (SpecCamera).  The       *)
(* vectors position, target and up are not part of the model: what         *)
(* get_up_center_origin and abs_diff_eq return from them is an input of    *)
(* update_animation, and so is whether ANIMATION_DURATION has elapsed      *)
(* since start_time.                                                       *)

\* largest number of y_top and center_target_on_origin calls in one run
MaxTriggers == 2

\* the count both animations start from
AnimationSteps == 100

\* the call in progress as camlast records it: the fields before the call
CameraCall(op, elapsed, n) ==
    [op |-> op, elapsed |-> elapsed, y_top |-> animating_y_top,
     to_origin |-> animating_to_origin, start_time |-> start_time, n |-> n]

\* OrbitCamera::y_top
YTop ==
    /\ camlast.n < MaxTriggers
    /\ animating_y_top' = AnimationSteps
    /\ start_time' = "Some"
    /\ camlast' = CameraCall("y_top", FALSE, camlast.n + 1)
    /\ UNCHANGED animating_to_origin
    /\ UNCHANGED <<engineVars, historyVars, driverVars, algebraVars, tetraVars>>

\* OrbitCamera::center_target_on_origin
CenterTargetOnOrigin ==
    /\ camlast.n < MaxTriggers
    /\ animating_to_origin' = AnimationSteps
    /\ start_time' = "Some"
    /\ camlast' = CameraCall("center_target_on_origin", FALSE, camlast.n + 1)
    /\ UNCHANGED animating_y_top
    /\ UNCHANGED <<engineVars, historyVars, driverVars, algebraVars, tetraVars>>

\* an update_animation that serves the y-top animation first
UpdateAnimationYTopFirst(elapsed, end_found, close) ==
    /\ camlast' = CameraCall("update_animation", elapsed, camlast.n)
    /\ IF start_time = "Some" /\ elapsed
       THEN IF animating_y_top > 0
            THEN IF close
                 THEN /\ animating_y_top' = 0
                      /\ UNCHANGED <<animating_to_origin, start_time>>
                 ELSE /\ animating_y_top' = animating_y_top - 1
                      /\ start_time' = "Some"
                      /\ UNCHANGED animating_to_origin
            ELSE IF animating_to_origin > 0
            THEN IF end_found
                 THEN /\ animating_to_origin' = animating_to_origin - 1
                      /\ start_time' = "Some"
                      /\ UNCHANGED animating_y_top
                 ELSE /\ animating_to_origin' = 0
                      /\ UNCHANGED <<animating_y_top, start_time>>
            ELSE /\ start_time' = "None"
                 /\ UNCHANGED <<animating_y_top, animating_to_origin>>
       ELSE UNCHANGED <<animating_y_top, animating_to_origin, start_time>>
    /\ UNCHANGED <<engineVars, historyVars, driverVars, algebraVars, tetraVars>>

\* OrbitCamera::update_animation.  elapsed: dt >= ANIMATION_DURATION;
\* end_found: get_up_center_origin returns Some; close: up.abs_diff_eq(end,
\* 0.01).  A counter below 0 would stand for the underflow of the u32
UpdateAnimation(elapsed, end_found, close) ==
    /\ camlast' = CameraCall("update_animation", elapsed, camlast.n)
    /\ IF start_time = "Some" /\ elapsed
       THEN IF animating_to_origin > 0
            THEN IF end_found
                 THEN /\ animating_to_origin' = animating_to_origin - 1
                      /\ start_time' = "Some"
                      /\ UNCHANGED animating_y_top
                 ELSE /\ animating_to_origin' = 0
                      /\ UNCHANGED <<animating_y_top, start_time>>
            ELSE IF animating_y_top > 0
            THEN IF close
                 THEN /\ animating_y_top' = 0
                      /\ UNCHANGED <<animating_to_origin, start_time>>
                 ELSE /\ animating_y_top' = animating_y_top - 1
                      /\ start_time' = "Some"
                      /\ UNCHANGED animating_to_origin
            ELSE /\ start_time' = "None"
                 /\ UNCHANGED <<animating_y_top, animating_to_origin>>
       ELSE UNCHANGED <<animating_y_top, animating_to_origin, start_time>>
    /\ UNCHANGED <<engineVars, historyVars, driverVars, algebraVars, tetraVars>>

CameraInit ==
    /\ variant = "Normal"
    /\ scale = One
    /\ particles = <<>>
    /\ call = Idle
    /\ created = particles
    /\ pre = particles
    /\ evaluated = {}
    /\ ncalls = 0
    /\ DriverInit(One)
    /\ AlgebraIdle
    /\ TetraIdle
    /\ CameraNew

CameraNext ==
    \/ YTop
    \/ CenterTargetOnOrigin
    \/ \E elapsed, end_found, close \in BOOLEAN :
          UpdateAnimation(elapsed, end_found, close)

SpecCamera == CameraInit /\ [][CameraNext]_vars

\* update_animation is called with the interval elapsed
ElapsedUpdate == \E end_found, close \in BOOLEAN : UpdateAnimation(TRUE, end_found, close)

\* about_to_wait calls update_animation and asks for the next redraw each
\* time, and the clock passes start_time + ANIMATION_DURATION: calls with
\* the interval elapsed keep being made
SpecCameraFair == SpecCamera /\ WF_vars(ElapsedUpdate)

-----------------------------------------------------------------------------
(* Properties of the engine.                                               *)

\* the parallel loop of operation op has done every particle
Finished(op) == call.op = op /\ call.pending = {}

StoreFinite(ps) ==
    \A k \in 1..Len(ps) :
        VFinite(ps[k].position) /\ VFinite(ps[k].velocity) /\ IsFinite(ps[k].mass)

DeltaV(i) == VSub(particles[i].velocity, pre[i].velocity)

DeltaP(i) == VSub(particles[i].position, pre[i].position)

\* m_j * (p_j - p_i) / |p_j - p_i|^3
NewtonTerm(p_i, p_j, m_j) ==
    LET d == VSub(p_j, p_i)
        r2 == LengthSquared(d)
    IN  VScale(d, Div(Div(m_j, r2), Sqrt(r2)))

\* the sum of NewtonTerm over the particles j of 1..upto that are in js
RECURSIVE NewtonSum(_, _, _, _)
NewtonSum(upto, i, ps, js) ==
    IF upto = 0 THEN VZero
    ELSE IF upto \in js
         THEN VAdd(NewtonSum(upto - 1, i, ps, js),
                   NewtonTerm(ps[i].position, ps[upto].position, ps[upto].mass))
         ELSE NewtonSum(upto - 1, i, ps, js)

Others(i) == (1..Len(pre)) \ {i}

\* dt * G * the sum of NewtonTerm over the particles js, from the pre-call store
Euler(i, js) ==
    VScale(NewtonSum(Len(pre), i, pre, js), Mul(call.delta_seconds, Rat(G, 1)))

\* the particles at a squared distance of EPSILON or more from particle i
Apart(i) ==
    {j \in Others(i) :
        Le(Rat(EPSILON, 1), LengthSquared(VSub(pre[j].position, pre[i].position)))}

\* C1: update_velocities works from one snapshot of the positions and masses
\* taken before any velocity is written, and in whatever order the particles
\* are processed, each processed particle holds the velocity the in-order
\* run gives it and each unprocessed particle is untouched.
C1_OrderIndependent ==
    call.op = "update_velocities" =>
        /\ call.positions = SnapshotPositions(pre)
        /\ call.masses = SnapshotMasses(pre)
        /\ LET in_order == UpdateVelocitiesInOrder(pre, Len(pre), SnapshotPositions(pre),
                                SnapshotMasses(pre), call.delta_seconds, variant)
           IN  \A i \in 1..Len(particles) :
                   particles[i] = IF i \in call.pending THEN pre[i] ELSE in_order[i]

C1_Witness ==
    /\ Finished("update_velocities")
    /\ Len(particles) = 3
    /\ \A i \in 1..3 : particles[i].velocity # pre[i].velocity

\* C4 as stated: update_velocities adds dt * G * sum over every j # i of
\* m_j * (p_j - p_i) / |p_j - p_i|^3 to velocity i.
C4_AllPairs ==
    (Finished("update_velocities") /\ StoreFinite(pre)) =>
        \A i \in 1..Len(pre) :
            VUnrep(Euler(i, Others(i))) \/ DeltaV(i) = Euler(i, Others(i))

\* C4 amended: update_velocities adds dt * G * sum of
\* m_j * (p_j - p_i) / |p_j - p_i|^3 over the j # i whose squared distance
\* from i is at least EPSILON, computed from the pre-call positions and masses.
C4_ForwardEuler ==
    (Finished("update_velocities") /\ StoreFinite(pre)) =>
        \A i \in 1..Len(pre) :
            VUnrep(Euler(i, Apart(i))) \/ DeltaV(i) = Euler(i, Apart(i))

C4_Witness ==
    /\ Finished("update_velocities")
    /\ StoreFinite(pre)
    /\ Len(pre) = 3
    /\ \A i \in 1..3 : Apart(i) = Others(i) /\ pre[i].mass # Zero
    /\ \E i \in 1..3 : DeltaV(i)[1] # Zero /\ DeltaV(i)[2] # Zero

\* the length light travels in delta_seconds, in the store's length unit
LightStep == Div(Mul(Rat(LIGHT_SPEED, 1), call.delta_seconds), scale)

\* C5: in the LorentzTransformation variant one advance_time call moves no
\* particle further than light_speed * dt / scale, and leaves every position a
\* defined number, whatever the velocity.
C5_SpeedCap ==
    (Finished("advance_time") /\ variant = "LorentzTransformation" /\ StoreFinite(pre)) =>
        \A i \in 1..Len(pre) :
            /\ VFinite(particles[i].position)
            /\ Le(LengthSquared(DeltaP(i)), Mul(LightStep, LightStep))

\* C6: a particle that starts at rest among particles of mass zero keeps its
\* position and velocity, after any number of calls, in every variant.
C6_ZeroCase ==
    \A i \in 1..Len(created) :
        (/\ StoreFinite(created)
         /\ created[i].velocity = VZero
         /\ \A j \in (1..Len(created)) \ {i} : created[j].mass = Zero)
        => (/\ particles[i].position = created[i].position
            /\ particles[i].velocity = created[i].velocity)

\* C8: Newton's third law for a store of two particles: one update_velocities
\* call gives m1 * delta_v1 = -(m2 * delta_v2), and the pair is skipped for
\* both particles or for neither.
C8_ThirdLaw ==
    (Finished("update_velocities") /\ StoreFinite(pre) /\ Len(pre) = 2) =>
        /\ \/ VUnrep(VScale(DeltaV(1), pre[1].mass))
           \/ VUnrep(VScale(DeltaV(2), pre[2].mass))
           \/ VScale(DeltaV(1), pre[1].mass) =
                  VScale(VScale(DeltaV(2), pre[2].mass), Neg(One))
        /\ (<<1, 2>> \in evaluated) <=> (<<2, 1>> \in evaluated)

C8_Witness ==
    /\ Finished("update_velocities")
    /\ StoreFinite(pre)
    /\ Len(pre) = 2
    /\ pre[1].mass # pre[2].mass
    /\ pre[1].mass # Zero
    /\ pre[2].mass # Zero
    /\ evaluated = {<<1, 2>>, <<2, 1>>}
    /\ DeltaV(1) # VZero

\* C9: update_velocities computes the force of exactly the pairs (i, j) with
\* i # j and a squared separation of EPSILON or more; a pair below EPSILON
\* adds exactly zero to the acceleration of i and nothing is divided by its
\* distance, so the result stays a defined number.
C9_NearPairsSkipped ==
    (Finished("update_velocities") /\ StoreFinite(pre)) =>
        /\ evaluated = {<<i, j>> \in (1..Len(pre)) \X (1..Len(pre)) : j \in Apart(i)}
        /\ \A i \in 1..Len(pre) :
            /\ VFinite(particles[i].velocity)
            /\ Apart(i) = {} => particles[i].velocity = pre[i].velocity

C9_Witness ==
    /\ Finished("update_velocities")
    /\ StoreFinite(pre)
    /\ Len(pre) = 2
    /\ pre[2].mass # Zero
    /\ pre[1].position # pre[2].position
    /\ Apart(1) = {}
    /\ particles[1].velocity = pre[1].velocity

\* C10: the number of particles, their order and every particle's mass and
\* color stay what they were when the store was created.
C10_FixedStore ==
    /\ Len(particles) = Len(created)
    /\ \A k \in 1..Len(created) :
        /\ particles[k].mass = created[k].mass
        /\ particles[k].color = created[k].color

C10_Witness ==
    /\ ncalls >= 2
    /\ Len(particles) >= 2
    /\ \E k \in 1..Len(particles) :
        /\ particles[k].position # created[k].position
        /\ particles[k].velocity # created[k].velocity

\* C11: advance_time never changes a particle's stored velocity, in any
\* variant: at every point of the call each velocity is what it was when the
\* call began.
C11_VelocityKept ==
    call.op = "advance_time" =>
        \A i \in 1..Len(pre) : particles[i].velocity = pre[i].velocity

\* a SpeedOfLightLimit advance_time has moved a particle by less than
\* velocity * dt
C11_Witness ==
    /\ Finished("advance_time")
    /\ variant = "SpeedOfLightLimit"
    /\ \E i \in 1..Len(pre) :
          /\ VFinite(particles[i].position)
          /\ DeltaP(i) # VZero
          /\ DeltaP(i) # VScale(pre[i].velocity, call.delta_seconds)

\* C12: update_velocities never changes a particle's position, in any
\* variant: at every point of the call each position is what it was when the
\* call began.
C12_PositionKept ==
    call.op = "update_velocities" =>
        \A i \in 1..Len(pre) : particles[i].position = pre[i].position

\* an update_velocities call has changed every velocity of a three-body store
C12_Witness ==
    /\ Finished("update_velocities")
    /\ Len(pre) = 3
    /\ \A i \in 1..Len(pre) :
          VFinite(particles[i].velocity) /\ DeltaV(i) # VZero

\* C13: for the same particles and the same dt the update_velocities of the
\* three variants give the same velocities, and SimulationState's
\* update_velocities and advance_time give exactly what the operation of the
\* wrapped variant gives.
C13_SameUpdate ==
    /\ Finished("update_velocities") =>
          \A i \in 1..Len(pre) :
              LET n == UpdateVelocitiesStep(pre, i, call.positions, call.masses,
                                            call.delta_seconds)[i]
                  s == UpdateVelocitiesStepSpeedOfLightLimit(pre, i, call.positions,
                           call.masses, call.delta_seconds)[i]
                  l == UpdateVelocitiesStepLorentzTransformation(pre, i,
                           call.positions, call.masses, call.delta_seconds)[i]
              IN  n = s /\ s = l /\ particles[i] = n
    /\ Finished("advance_time") =>
          \A i \in 1..Len(pre) :
              particles[i] =
                  CASE variant = "Normal" -> AdvanceNormal(pre[i], call.delta_seconds)
                    [] variant = "SpeedOfLightLimit" ->
                          AdvanceSpeedOfLightLimit(pre[i], call.delta_seconds)
                    [] variant = "LorentzTransformation" ->
                          AdvanceLorentzTransformation(pre[i], call.delta_seconds,
                                                       scale)

\* a LorentzTransformation state has updated the velocities of a store of
\* three massive particles with a dt other than 1
C13_Witness ==
    /\ Finished("update_velocities")
    /\ variant = "LorentzTransformation"
    /\ call.delta_seconds # One
    /\ Len(pre) = 3
    /\ \A i \in 1..Len(pre) : VFinite(particles[i].velocity) /\ DeltaV(i) # VZero

\* C14: no update_velocities or advance_time call, and no step of one, changes
\* the active variant of the state or its scale.
C14_VariantFixed == [][variant' = variant /\ scale' = scale]_vars

\* a LorentzTransformation state of scale 2 has been through two calls that
\* changed positions and velocities
C14_Witness ==
    /\ variant = "LorentzTransformation"
    /\ scale = Two
    /\ ncalls >= 2
    /\ \E k \in 1..Len(particles) :
          /\ particles[k].position # created[k].position
          /\ particles[k].velocity # created[k].velocity

\* a SpeedOfLightLimit advance_time has done every particle of a finite store
LimitAdvanced ==
    Finished("advance_time") /\ variant = "SpeedOfLightLimit" /\ StoreFinite(pre)

LightSpeedSquared == Rat(LIGHT_SPEED_SQUARED, 1)

\* C15 (as stated): in the SpeedOfLightLimit variant, whenever a particle's
\* speed is at or above light speed, advance_time makes its position NaN; the
\* velocity is neither clamped nor rejected.
C15_NaNAtOrAbove ==
    LimitAdvanced =>
        \A i \in 1..Len(pre) :
            Le(LightSpeedSquared, LengthSquared(pre[i].velocity)) =>
                /\ \A c \in 1..3 : IsNaN(particles[i].position[c])
                /\ particles[i].velocity = pre[i].velocity

\* C15 (amended): in the SpeedOfLightLimit variant there is no guard on speed:
\* whenever a particle's speed is above light speed, advance_time takes the
\* square root of a negative number and every component of the position
\* becomes NaN; at exactly light speed the square root is that of zero and the
\* position stays what it was; in both cases the velocity is kept as it is.
C15_NaNAbove ==
    LimitAdvanced =>
        \A i \in 1..Len(pre) :
            /\ Lt(LightSpeedSquared, LengthSquared(pre[i].velocity)) =>
                  /\ \A c \in 1..3 : IsNaN(particles[i].position[c])
                  /\ particles[i].velocity = pre[i].velocity
            /\ LengthSquared(pre[i].velocity) = LightSpeedSquared =>
                  /\ particles[i].position = pre[i].position
                  /\ particles[i].velocity = pre[i].velocity

\* a particle faster than light has been advanced
C15_Witness ==
    /\ LimitAdvanced
    /\ \E i \in 1..Len(pre) :
          /\ Lt(LightSpeedSquared, LengthSquared(pre[i].velocity))
          /\ IsNaN(particles[i].position[2])
          /\ pre[i].velocity[2] = Zero

\* advance_time(0) has returned on a store of numbers
AdvancedByZero ==
    Finished("advance_time") /\ call.delta_seconds = Zero /\ StoreFinite(pre)

\* C25: advance_time with delta_seconds = 0 leaves the position of every
\* particle slower than light as it was, a defined number, in all three
\* variants.
C25_ZeroStep ==
    AdvancedByZero =>
        \A i \in 1..Len(pre) :
            Lt(LengthSquared(pre[i].velocity), LightSpeedSquared)
                => particles[i].position = pre[i].position

-----------------------------------------------------------------------------
(* Properties of the driver.                                               *)

\* a tick has made all its calls and the simulation thread has not yet gone on
TickDone == sim_pc = "skip_redraw"

\* the calls of a tick in the other order: update_velocities, then advance_time
UpdateThenAdvance(delta) ==
    << [op |-> "update_velocities", delta_seconds |-> delta],
       [op |-> "advance_time", delta_seconds |-> delta] >>

AdvanceThenUpdate(delta) ==
    << [op |-> "advance_time", delta_seconds |-> delta],
       [op |-> "update_velocities", delta_seconds |-> delta] >>

\* C2 (as stated): in every tick the driver calls update_velocities first and
\* advance_time second, each exactly once and with the same delta.
C2_UpdateFirst ==
    TickDone => tick.log = UpdateThenAdvance(locals.time_per_frame)

\* C2 (amended): in every tick the driver calls advance_time first and
\* update_velocities second, each exactly once and with the delta the thread
\* read before the tick, so the tick's positions are advanced with the
\* velocities the store had before the tick's force accumulation.
C2_AdvanceFirst ==
    /\ tick.k > 0 =>
          \E n \in 0..2 : tick.log = SubSeq(AdvanceThenUpdate(locals.time_per_frame), 1, n)
    /\ TickDone =>
          /\ tick.log = AdvanceThenUpdate(locals.time_per_frame)
          /\ \A i \in 1..Len(particles) :
                /\ particles[i].position =
                       AdvanceTimeStep(tick.start, i, locals.time_per_frame,
                                       variant, scale)[i].position
                /\ variant = "Normal" =>
                       particles[i].position =
                           VAdd(tick.start[i].position,
                                VScale(tick.start[i].velocity,
                                       locals.time_per_frame))

\* a tick of a store with a moving particle is done, and the user has changed
\* time_per_frame since the thread read it
C2_Witness ==
    /\ TickDone
    /\ variant = "Normal"
    /\ tick.start[2].velocity # VZero
    /\ particles[2].position # tick.start[2].position
    /\ particles[2].velocity # tick.start[2].velocity
    /\ ui_state.time_per_frame # locals.time_per_frame

\* C3: a tick is atomic for the other thread: the simulation thread holds the
\* write guard from before the first call of a tick until after the last, no
\* read guard is out meanwhile, the render thread holds its read guard only
\* when no tick and no call is in progress, and what it copied was read
\* between ticks.
C3_TickAtomic ==
    /\ tick.k > 0 => sim_lock.writer = "sim" /\ sim_lock.readers = {}
    /\ call.op # "idle" => sim_lock.writer = "sim"
    /\ "render" \in sim_lock.readers =>
          tick.k = 0 /\ call.op = "idle" /\ sim_lock.writer = "none"
    /\ render_copy.during = 0

\* the render thread still holds its read guard on a store that has been
\* ticked, and the simulation thread is waiting for the write guard
C3_Witness ==
    /\ "render" \in sim_lock.readers
    /\ nticks >= 1
    /\ Len(render_copy.positions) = Len(particles)
    /\ \A k \in 1..Len(particles) :
          render_copy.positions[k][1] = AsF32(particles[k].position[1])
    /\ sim_pc = "tick"

\* the store was created as two particles of equal mass at rest on the x axis
TwoBodyAtRest ==
    /\ Len(created) = 2
    /\ created[1].mass = created[2].mass
    /\ created[1].velocity = VZero /\ created[2].velocity = VZero
    /\ created[1].position[2] = created[2].position[2]
    /\ created[1].position[3] = created[2].position[3]
    /\ Lt(created[1].position[1], created[2].position[1])

\* C7: two particles of equal mass m at rest, r apart along x, Normal variant:
\* after the first tick of length dt each velocity is nonzero, points at the
\* other particle and has magnitude G*m*dt/r^2, and both positions still have
\* their initial values.
C7_TwoBody ==
    (variant = "Normal" /\ TwoBodyAtRest /\ nticks = 1 /\ tick.k = 0) =>
        LET r == Sub(created[2].position[1], created[1].position[1])
            dt == tick.log[1].delta_seconds
            speed == Div(Mul(Mul(Rat(G, 1), created[1].mass), dt), Mul(r, r))
        IN  /\ Lt(Zero, speed)
            /\ particles[1].velocity = Vec(speed, Zero, Zero)
            /\ particles[2].velocity = Vec(Neg(speed), Zero, Zero)
            /\ particles[1].position = created[1].position
            /\ particles[2].position = created[2].position

\* the first tick of such a store is done, in the Normal variant
C7_Witness ==
    /\ variant = "Normal"
    /\ TwoBodyAtRest
    /\ nticks = 1
    /\ TickDone
    /\ particles[1].velocity # VZero


-----------------------------------------------------------------------------
(* Properties of the four-vector operations (SpecSpacetime).               *)

LorentzCalls == {"lorentz_transformation_v", "lorentz_transformation_rapidity"}

\* C16: a Lorentz transformation with a zero velocity or a zero rapidity
\* returns at once: the four-vector is what it was before the call, and no
\* boost was built (so nothing was divided by the zero length).
C16_ZeroIsNoOp ==
    (last.op \in LorentzCalls /\ last.v = VZero)
        => (st = last.before /\ last.boosts = <<>>)

C16_Witness ==
    /\ last.op = "lorentz_transformation_v"
    /\ last.v = VZero
    /\ last.c = One
    /\ st = Spacetime(One, Two, Rat(3, 1), Rat(4, 1))


\* tanh of an angle the model holds as e^a
Tanh(a) == Div(Sub(a, Div(One, a)), Add(a, Div(One, a)))

\* the last call was lorentz_transformation_v, it built a boost, and the
\* rapidity of that boost is a finite number
BoostedByV ==
    /\ last.op = "lorentz_transformation_v"
    /\ last.boosts # <<>>
    /\ ~IsNaN(last.boosts[1].a)

\* C17: for a nonzero velocity v the transformation takes its rapidity from
\* the magnitude of v, a = atanh(|v| * scale_factor) (tanh a = |v| *
\* scale_factor), builds the boost exp(a / 2, d) at half that rapidity and
\* applies it with lorentz_transformation.
C17_FromMagnitude ==
    BoostedByV =>
        LET b == last.boosts[1]
        IN  /\ Tanh(b.a) = Mul(Length(last.v), last.c)
            /\ b.g = Exp(HalfAngle(b.a), b.dir)
            /\ st = LorentzTransformation(last.before, b.g)


\* t^2 - x^2 - y^2 - z^2 of a four-vector
Interval(g) ==
    Sub(Sub(Sub(Mul(g.t, g.t), Mul(g.x, g.x)), Mul(g.y, g.y)), Mul(g.z, g.z))

\* C18: every boost g that a velocity- or rapidity-based transformation
\* passes to lorentz_transformation is unit, g.t^2 - g.x^2 - g.y^2 - g.z^2
\* = 1, its direction being the input vector divided by its length.
C18_UnitBoost ==
    \A k \in DOMAIN last.boosts :
        (last.op \in LorentzCalls /\ ~IsNaN(last.boosts[k].a))
            => Interval(last.boosts[k].g) = One


RapidityCalls == {"rapidity_vector", "rapidity_from_momentum"}

\* C19: rapidity_vector and rapidity_from_momentum return the zero vector
\* for a zero input vector, whatever the other arguments are; nothing is
\* divided by the zero length (no component of the result is NaN).
C19_ZeroRapidity ==
    (last.op \in RapidityCalls /\ last.v = VZero) => last.out = VZero

C19_Witness ==
    /\ last.op = "rapidity_from_momentum"
    /\ last.v = VZero
    /\ last.m = Zero
    /\ last.c = Zero
    /\ last.out = VZero


\* x^2 + y^2 + z^2 - t^2, written out for a four-vector s
SpaceMinusTime(s) ==
    Sub(Add(Add(Mul(s.x, s.x), Mul(s.y, s.y)), Mul(s.z, s.z)), Mul(s.t, s.t))

\* C20: norm returns x^2 + y^2 + z^2 - t^2 for every four-vector, so 0 for
\* zero() and -1 for identity(); conjugated() negates t only and leaves x,
\* y, z and the norm as they were.
C20_NormAndConjugate ==
    /\ last.op = "norm" =>
          /\ last.value = SpaceMinusTime(last.before)
          /\ last.before = SpacetimeZero => last.value = Zero
          /\ last.before = SpacetimeIdentity => last.value = Neg(One)
    /\ last.op = "conjugated" =>
          /\ st.t = Neg(last.before.t)
          /\ st.x = last.before.x
          /\ st.y = last.before.y
          /\ st.z = last.before.z
          /\ SpaceMinusTime(st) = SpaceMinusTime(last.before)

\* the norm of (1, 2, 3, 4) conjugated
C20_Witness ==
    /\ last.op = "norm"
    /\ last.n = 2
    /\ last.before = Spacetime(Neg(One), Two, Rat(3, 1), Rat(4, 1))
    /\ last.value = Rat(28, 1)


\* C21: lorentz_transformation with g = identity (1, 0, 0, 0) leaves every
\* four-vector as it was.
C21_IdentityBoost ==
    (last.op = "lorentz_transformation" /\ last.g = SpacetimeIdentity)
        => st = last.before

C21_Witness ==
    /\ last.op = "lorentz_transformation"
    /\ last.g = SpacetimeIdentity
    /\ last.before = Spacetime(One, Two, Rat(3, 1), Rat(4, 1))
    /\ st = Spacetime(One, Two, Rat(3, 1), Rat(4, 1))


-----------------------------------------------------------------------------
(* Properties of the TetraQuaternion operators (SpecTetra).                *)

\* sign times the scalar (out = 0) or the basis element out - 1
SignedUnit(sign, out) == [i \in 0..(DIM - 1) |-> IF i = out THEN sign ELSE 0]

\* the last operator multiplied the basis element left by the basis element right
BasisProduct(left, right) ==
    /\ tqlast.op = "mul"
    /\ tqlast.lhs = TetraQuaternionBasis(left)
    /\ tqlast.rhs = TetraQuaternionBasis(right)

C23_OneIsIdentity ==
    /\ (tqlast.op = "mul" /\ tqlast.lhs = TetraQuaternionOne) => tq = tqlast.rhs
    /\ (tqlast.op = "mul" /\ tqlast.rhs = TetraQuaternionOne) => tq = tqlast.lhs

\* new(1, [2, ..., 16]) * one()
C23_Witness ==
    /\ tqlast.op = "mul"
    /\ tqlast.rhs = TetraQuaternionOne
    /\ tqlast.lhs = TetraQuaternionNew(1, [i \in 1..15 |-> i + 1])
    /\ tq = TetraQuaternionNew(1, [i \in 1..15 |-> i + 1])


-----------------------------------------------------------------------------
(* Properties of lorentz_transformation (SpecSpacetime).                   *)

\* the last call was lorentz_transformation on a four-vector of numbers,
\* and the norms before and after are within the range of the model
Transformed ==
    /\ last.op = "lorentz_transformation"
    /\ ~IsNaN(last.before.t) /\ ~IsNaN(last.before.x)
    /\ ~IsNaN(last.before.y) /\ ~IsNaN(last.before.z)
    /\ ~IsUnrep(Norm(st))
    /\ ~IsUnrep(Mul(Norm(last.before), Mul(Interval(last.g), Interval(last.g))))

\* C24: lorentz_transformation by g multiplies the Minkowski norm by
\* (g.t^2 - g.x^2 - g.y^2 - g.z^2)^2, so a unit g, whatever its spatial
\* direction, preserves the norm of every four-vector.
C24_NormPreserved ==
    Transformed =>
        /\ Norm(st) = Mul(Norm(last.before),
                          Mul(Interval(last.g), Interval(last.g)))
        /\ Interval(last.g) = One => Norm(st) = Norm(last.before)


-----------------------------------------------------------------------------
(* Properties of the redraw handshake, the reset, the redraw cadence and   *)
(* the fps accounting (Spec).                                              *)

\* what about_to_wait copies out of the store ps
CopyOf(ps) ==
    [positions |-> [k \in 1..Len(ps) |-> [c \in 1..3 |-> AsF32(ps[k].position[c])]],
     colors |-> [k \in 1..Len(ps) |-> ps[k].color]]

\* C26: while need_redraw is true the simulation thread makes no tick and no
\* reset, so the store is not changed; need_redraw is set only by the
\* simulation thread and cleared only by the render thread once it holds a
\* copy of the positions and colors of the store as it is; outside the copying
\* itself the render thread's copy has as many positions as colors.
C26_RedrawHandshake ==
    /\ [](need_redraw => sim_pc \in {"head", "reset_skip", "frame"})
    /\ [](need_redraw => (tick.k = 0 /\ call.op = "idle"))
    /\ [](render_pc # "colors" =>
              Len(render_copy.positions) = Len(render_copy.colors))
    /\ [][ /\ need_redraw => particles' = particles
           /\ (~need_redraw /\ need_redraw') =>
                  (sim_pc \in {"reset_redraw", "skip_redraw"} /\ sim_pc' # sim_pc)
           /\ (need_redraw /\ ~need_redraw') =>
                  /\ render_pc = "clear" /\ render_pc' = "release"
                  /\ render_copy.positions = CopyOf(particles).positions
                  /\ render_copy.colors = CopyOf(particles).colors
                  /\ Len(render_copy.colors) = Len(particles) ]_vars

\* the render thread has cleared need_redraw over its copy of a store that
\* two ticks have changed
C26_Witness ==
    /\ render_pc = "release"
    /\ ~need_redraw
    /\ nticks >= 2
    /\ particles # created
    /\ render_copy.positions = CopyOf(particles).positions
    /\ render_copy.colors = CopyOf(particles).colors


C28_RedrawCadence ==
    /\ [](skip_redraw \in 0..last_request.skip)
    /\ [](skip_redraw = last_request.skip - last_request.ticks)
    /\ [][ (sim_pc = "skip_redraw" /\ sim_pc' # sim_pc) =>
              /\ ~need_redraw
              /\ IF skip_redraw = 0
                 THEN need_redraw' /\ skip_redraw' = locals.skip
                 ELSE ~need_redraw' /\ skip_redraw' = skip_redraw - 1
              /\ need_redraw' <=> (last_request.ticks = last_request.skip) ]_vars

\* the last request loaded skip = 1, one tick has been made without a
\* request, and the next tick is about to make one
C28_Witness ==
    /\ sim_pc = "skip_redraw"
    /\ last_request = [skip |-> 1, ticks |-> 1]
    /\ skip_redraw = 0
    /\ nticks = 2

\* C29: the displayed fps is never negative: when a second has passed it
\* is set to frame - prev_frame if that is positive and to 0 otherwise (as
\* after a reset that took frame back to 1 while prev_frame holds a larger
\* value), and prev_frame takes the value of frame.  Every executed tick is
\* followed by frame + 1 and by simulation_time + the time_per_frame the
\* tick was made with; nothing else but a reset changes either.
C29_FpsAndFrame ==
    /\ [](ui_state.fps >= 0)
    /\ [](sim_pc \notin {"skip_redraw", "frame", "reset_ui"} =>
              ui_state.frame = 1 + nticks)
    /\ [][ /\ (sim_pc = "fps" /\ sim_pc' # sim_pc) =>
                  \/ UNCHANGED <<ui_state, prev_frame>>
                  \/ /\ ui_state'.fps = IF ui_state.frame > prev_frame
                                        THEN ui_state.frame - prev_frame ELSE 0
                     /\ prev_frame' = ui_state.frame
           /\ ui_state'.fps # ui_state.fps => sim_pc = "fps"
           /\ (\/ ui_state'.frame # ui_state.frame
               \/ ui_state'.simulation_time # ui_state.simulation_time) =>
                  \/ /\ sim_pc = "reset_ui"
                     /\ ui_state'.frame = 1
                     /\ ui_state'.simulation_time = Zero
                  \/ /\ sim_pc = "frame"
                     /\ Len(tick.log) = 2
                     /\ ui_state'.frame = ui_state.frame + 1
                     /\ ui_state'.simulation_time =
                            Add(ui_state.simulation_time, tick.log[1].delta_seconds)
           /\ (sim_pc = "frame" /\ sim_pc' # sim_pc) =>
                  ui_state'.frame = ui_state.frame + 1 ]_vars

\* a second has passed after a reset took frame back to 1 while prev_frame
\* was 3: the fps shown goes from 2 to 0
C29_Witness ==
    /\ sim_pc = "fps"
    /\ nresets = 1
    /\ ui_state.frame = 1
    /\ prev_frame = 3
    /\ ui_state.fps = 2

-----------------------------------------------------------------------------
(* Properties of the camera animation (SpecCamera).                        *)

\* what is left of the animations: the two counters, and one more call to
\* clear start_time
AnimationLeft(y_top, to_origin, start) ==
    y_top + to_origin + (IF start = "Some" THEN 1 ELSE 0)

CameraIdle ==
    /\ animating_y_top = 0
    /\ animating_to_origin = 0
    /\ start_time = "None"

\* C30: the camera animation ends.  y_top and center_target_on_origin set
\* their counter to 100; an update_animation call with the interval elapsed
\* serves the to-origin animation while its counter is above 0 and the y-top
\* animation only after it, takes one off a counter only when it is above 0
\* (no counter leaves 0..100), and leaves less to do than it found; so after
\* finitely many such calls both counters are 0 and start_time is None, and
\* from there update_animation changes nothing.
C30_AnimationEnds ==
    /\ [](animating_y_top \in 0..AnimationSteps /\ animating_to_origin \in 0..AnimationSteps)
    /\ [](camlast.op = "y_top" =>
              (animating_y_top = AnimationSteps /\ start_time = "Some"))
    /\ [](camlast.op = "center_target_on_origin" =>
              (animating_to_origin = AnimationSteps /\ start_time = "Some"))
    /\ []((camlast.op = "update_animation" /\ camlast.elapsed /\ camlast.start_time = "Some") =>
              /\ IF camlast.to_origin > 0
                 THEN /\ animating_to_origin \in {camlast.to_origin - 1, 0}
                      /\ animating_y_top = camlast.y_top
                 ELSE IF camlast.y_top > 0
                 THEN /\ animating_y_top \in {camlast.y_top - 1, 0}
                      /\ animating_to_origin = 0
                 ELSE CameraIdle
              /\ AnimationLeft(animating_y_top, animating_to_origin, start_time)
                     < AnimationLeft(camlast.y_top, camlast.to_origin, camlast.start_time))
    /\ []((camlast.op = "update_animation" /\ camlast.start_time = "None") =>
              /\ CameraIdle
              /\ camlast.y_top = 0 /\ camlast.to_origin = 0)
    /\ [](start_time = "None" => CameraIdle)
    /\ []<>CameraIdle

\* two animations were started and have come to their end, and a further
\* call with the interval elapsed found nothing to do and changed nothing
C30_Witness ==
    /\ camlast.op = "update_animation"
    /\ camlast.n = 2
    /\ camlast.elapsed
    /\ camlast.start_time = "None"
    /\ CameraIdle

====
